---- MODULE Spec2Model ----
(***************************************************************************)
(* A model of chatgpt-cli (src/main.go): the configuration resolver, the   *)
(* config-file reader and writer, the prompt handler with its chat client  *)
(* and the logger.  Go strings are TLA+ strings; Len, \o, SubSeq, Head and *)
(* Tail act on them character by character.                                *)
(***************************************************************************)
EXTENDS Integers, Sequences, FiniteSets, TLC

(***************************************************************************)
(* package strings                                                         *)
(***************************************************************************)

\* the character of s at position i (from 1), "" beyond its ends
CharAt(s, i) == IF 1 <= i /\ i <= Len(s) THEN SubSeq(s, i, i) ELSE ""

\* unicode.IsSpace on the characters the model uses
IsSpace(c) == c \in {" ", "\t", "\n", "\r"}

IsDigit(c) == c \in {"0", "1", "2", "3", "4", "5", "6", "7", "8", "9"}

DigitVal(c) ==
    CASE c = "0" -> 0 [] c = "1" -> 1 [] c = "2" -> 2 [] c = "3" -> 3
      [] c = "4" -> 4 [] c = "5" -> 5 [] c = "6" -> 6 [] c = "7" -> 7
      [] c = "8" -> 8 [] c = "9" -> 9

RECURSIVE TrimLeft(_)
TrimLeft(s) ==
    IF Len(s) > 0 /\ IsSpace(Head(s)) THEN TrimLeft(Tail(s)) ELSE s

RECURSIVE TrimRight(_)
TrimRight(s) ==
    IF Len(s) > 0 /\ IsSpace(CharAt(s, Len(s)))
    THEN TrimRight(SubSeq(s, 1, Len(s) - 1))
    ELSE s

\* strings.TrimSpace
TrimSpace(s) == TrimRight(TrimLeft(s))

\* strings.HasPrefix
HasPrefix(s, p) == Len(s) >= Len(p) /\ SubSeq(s, 1, Len(p)) = p

\* the least element of a non-empty set of integers
Min(S) == CHOOSE x \in S : \A y \in S : x <= y

\* the first position from i on where s holds a character of the set cs,
\* 0 when there is none
IndexAny(s, cs, i) ==
    LET hits == {j \in i..Len(s) : CharAt(s, j) \in cs} IN
    IF hits = {} THEN 0 ELSE Min(hits)

\* strings.Index for a one-character separator: the first position of c in
\* s, 0 when c does not occur
Index(s, c) == IndexAny(s, {c}, 1)

\* strings.Split(s, sep) for a one-character separator
RECURSIVE Split(_, _)
Split(s, sep) ==
    LET i == Index(s, sep) IN
    IF i = 0 THEN <<s>>
    ELSE <<SubSeq(s, 1, i - 1)>> \o Split(SubSeq(s, i + 1, Len(s)), sep)

\* strings.SplitN(s, sep, 2)
SplitN2(s, sep) ==
    LET i == Index(s, sep) IN
    IF i = 0 THEN <<s>>
    ELSE <<SubSeq(s, 1, i - 1), SubSeq(s, i + 1, Len(s))>>

\* strings.Join
RECURSIVE Join(_, _)
Join(elems, sep) ==
    IF Len(elems) = 0 THEN ""
    ELSE IF Len(elems) = 1 THEN elems[1]
    ELSE elems[1] \o sep \o Join(Tail(elems), sep)

LowerLetters == "abcdefghijklmnopqrstuvwxyz"
UpperLetters == "ABCDEFGHIJKLMNOPQRSTUVWXYZ"

ToUpperChar(c) ==
    LET i == Index(LowerLetters, c) IN
    IF i = 0 THEN c ELSE CharAt(UpperLetters, i)

ToLowerChar(c) ==
    LET i == Index(UpperLetters, c) IN
    IF i = 0 THEN c ELSE CharAt(LowerLetters, i)

\* strings.ToUpper
RECURSIVE ToUpper(_)
ToUpper(s) ==
    IF Len(s) = 0 THEN "" ELSE ToUpperChar(Head(s)) \o ToUpper(Tail(s))

RECURSIVE ToLower(_)
ToLower(s) ==
    IF Len(s) = 0 THEN "" ELSE ToLowerChar(Head(s)) \o ToLower(Tail(s))

AllDigits(s) == \A i \in 1..Len(s) : IsDigit(CharAt(s, i))

\* the value of a string of decimal digits
RECURSIVE DigitsVal(_)
DigitsVal(s) ==
    IF Len(s) = 0 THEN 0
    ELSE 10 * DigitsVal(SubSeq(s, 1, Len(s) - 1)) + DigitVal(CharAt(s, Len(s)))

(***************************************************************************)
(* package strconv and time.ParseDuration.  A parse result is a record     *)
(* [ok, val]; ok = FALSE is Go's err # nil.                                *)
(***************************************************************************)

IsSign(c) == c \in {"+", "-"}

\* s without its leading sign, if it has one
Unsigned(s) == IF Len(s) > 0 /\ IsSign(Head(s)) THEN Tail(s) ELSE s

IsNegative(s) == Len(s) > 0 /\ Head(s) = "-"

\* strconv.Atoi: an optional sign and one or more decimal digits.  (The
\* strings of the model are short, far from the 64-bit range error.)
Atoi(s) ==
    LET body == Unsigned(s) IN
    IF Len(body) = 0 \/ ~AllDigits(body) THEN [ok |-> FALSE, val |-> 0]
    ELSE [ok |-> TRUE,
          val |-> IF IsNegative(s) THEN 0 - DigitsVal(body) ELSE DigitsVal(body)]

RECURSIVE Pow10(_)
Pow10(k) == IF k = 0 THEN 1 ELSE 10 * Pow10(k - 1)

\* A float64 is modelled exactly: [kind |-> "num", num, scale] is the
\* number num / 10^scale with no trailing zero in the fraction;
\* NaN and the infinities are values of their own.
NaN == [kind |-> "nan", num |-> 0, scale |-> 0]
Inf(sign) == [kind |-> "inf", num |-> sign, scale |-> 0]

RECURSIVE Decimal(_, _)
Decimal(n, k) ==
    IF k > 0 /\ n % 10 = 0 THEN Decimal(n \div 10, k - 1)
    ELSE [kind |-> "num", num |-> n, scale |-> k]

\* f < 0 and f > limit (an integer) as Go compares float64s: every
\* comparison with NaN is false
FloatLess(f, limit) ==
    \/ f.kind = "num" /\ f.num < limit * Pow10(f.scale)
    \/ f.kind = "inf" /\ f.num < 0

FloatGreater(f, limit) ==
    \/ f.kind = "num" /\ f.num > limit * Pow10(f.scale)
    \/ f.kind = "inf" /\ f.num > 0

\* strconv.ParseFloat(s, 64) on decimal literals without exponent:
\* "nan" (no sign), [+-]"inf" and [+-]"infinity" in any letter case, else
\* sign? digits* ("." digits*)? with at least one digit.  Exponents, hex
\* floats and underscores are not in the strings the model draws.
ParseFloat(s) ==
    LET body == Unsigned(s)
        dot  == Index(body, ".")
        ip   == IF dot = 0 THEN body ELSE SubSeq(body, 1, dot - 1)
        fp   == IF dot = 0 THEN "" ELSE SubSeq(body, dot + 1, Len(body))
        mag  == DigitsVal(ip \o fp)
    IN
    IF ToLower(s) = "nan" THEN [ok |-> TRUE, val |-> NaN]
    ELSE IF ToLower(body) \in {"inf", "infinity"}
    THEN [ok |-> TRUE, val |-> Inf(IF IsNegative(s) THEN -1 ELSE 1)]
    ELSE IF AllDigits(ip) /\ AllDigits(fp) /\ Len(ip) + Len(fp) > 0
    THEN [ok |-> TRUE,
          val |-> Decimal(IF IsNegative(s) THEN 0 - mag ELSE mag, Len(fp))]
    ELSE [ok |-> FALSE, val |-> Decimal(0, 0)]

\* the number of leading characters of s that are digits
RECURSIVE NumLen(_)
NumLen(s) ==
    IF Len(s) > 0 /\ IsDigit(Head(s)) THEN 1 + NumLen(Tail(s)) ELSE 0

\* the number of leading characters of s that are neither "." nor a digit
RECURSIVE UnitLen(_)
UnitLen(s) ==
    IF Len(s) > 0 /\ Head(s) # "." /\ ~IsDigit(Head(s))
    THEN 1 + UnitLen(Tail(s))
    ELSE 0

\* time's unitMap, a time.Duration being counted in milliseconds here
UnitNames == {"ms", "s", "m", "h"}

UnitMs(u) ==
    CASE u = "ms" -> 1 [] u = "s" -> 1000 [] u = "m" -> 60000
      [] u = "h" -> 3600000

\* the groups <digits><unit> of a duration string
RECURSIVE DurationGroups(_)
DurationGroups(s) ==
    IF Len(s) = 0 THEN [ok |-> TRUE, val |-> 0]
    ELSE
      LET n    == NumLen(s)
          rest == SubSeq(s, n + 1, Len(s))
          u    == UnitLen(rest)
          unit == SubSeq(rest, 1, u)
          r    == DurationGroups(SubSeq(rest, u + 1, Len(rest)))
      IN
      IF n = 0 \/ u = 0 \/ unit \notin UnitNames \/ ~r.ok
      THEN [ok |-> FALSE, val |-> 0]
      ELSE [ok |-> TRUE,
            val |-> DigitsVal(SubSeq(s, 1, n)) * UnitMs(unit) + r.val]

\* time.ParseDuration: [-+]?(<digits><unit>)+, and "0".  Fractions and the
\* units ns and us are not in the strings the model draws.
ParseDuration(s) ==
    LET body == Unsigned(s)
        r    == DurationGroups(body)
    IN
    IF body = "0" THEN [ok |-> TRUE, val |-> 0]
    ELSE IF Len(body) = 0 \/ ~r.ok THEN [ok |-> FALSE, val |-> 0]
    ELSE [ok |-> TRUE, val |-> IF IsNegative(s) THEN 0 - r.val ELSE r.val]

(***************************************************************************)
(* Configuration: main.go, lines 17-265                                    *)
(***************************************************************************)

envAPIKey      == "OPENAI_API_KEY"
envAPIURL      == "OPENAI_API_URL"
envModel       == "OPENAI_MODEL"
envTimeout     == "OPENAI_TIMEOUT"
envMaxTokens   == "OPENAI_MAX_TOKENS"
envTemperature == "OPENAI_TEMPERATURE"
envConfigDir   == "CHATGPT_CLI_CONFIG_DIR"

EnvKeys ==
    {envAPIKey, envAPIURL, envModel, envTimeout, envMaxTokens, envTemperature}

defaultAPIURL      == "https://api.openai.com/v1/chat/completions"
defaultModel       == "gpt-3.5-turbo"
defaultTimeout     == 60 * 1000
defaultMaxTokens   == 1000
defaultTemperature == Decimal(7, 1)

\* a Go map[string]string read at a key: "" for a key it does not hold
MapGet(m, k) == IF k \in DOMAIN m THEN m[k] ELSE ""

EmptyMap == [k \in {} |-> ""]

\* the loop body of loadConfigFile: one line into the map
ConfigLine(config, rawLine) ==
    LET line  == TrimSpace(rawLine)
        parts == SplitN2(line, "=")
    IN
    IF line = "" \/ HasPrefix(line, "#") THEN config
    ELSE IF Len(parts) = 2
    THEN (TrimSpace(parts[1]) :> TrimSpace(parts[2])) @@ config
    ELSE config

RECURSIVE ConfigLines(_, _)
ConfigLines(config, lines) ==
    IF Len(lines) = 0 THEN config
    ELSE ConfigLines(ConfigLine(config, Head(lines)), Tail(lines))

\* loadConfigFile: a file is [exists, data]; one that cannot be read gives
\* the empty map
loadConfigFile(file) ==
    IF ~file.exists THEN EmptyMap
    ELSE ConfigLines(EmptyMap, Split(file.data, "\n"))

\* getEnvOrFileConfig with the two sources in the wrong order: the file
\* value wins over the environment
getEnvOrFileConfig_FileFirst(environ, envKey, fileValue) ==
    IF fileValue # "" THEN fileValue ELSE environ[envKey]

\* getEnvOrFileConfig: environ is the process environment, a function from
\* variable names to values with "" for an unset variable (os.Getenv)
getEnvOrFileConfig(environ, envKey, fileValue) ==
    IF environ[envKey] # "" THEN environ[envKey] ELSE fileValue

getEnvOrFileOrDefault(environ, envKey, fileValue, defaultValue) ==
    IF environ[envKey] # "" THEN environ[envKey]
    ELSE IF fileValue # "" THEN fileValue
    ELSE defaultValue

\* os.UserHomeDir in the modelled process
HomeDir == "/home/user"

\* getConfigDir (filepath.Join(home, ".chatgpt-cli"))
getConfigDir(environ) ==
    IF environ[envConfigDir] # "" THEN environ[envConfigDir]
    ELSE HomeDir \o "/.chatgpt-cli"

parseIntOrDefault(value, defaultValue) ==
    IF value = "" THEN defaultValue
    ELSE IF ~Atoi(value).ok THEN defaultValue
    ELSE Atoi(value).val

parseFloatOrDefault(value, defaultValue) ==
    IF value = "" THEN defaultValue
    ELSE IF ~ParseFloat(value).ok THEN defaultValue
    ELSE ParseFloat(value).val

parseDurationOrDefault(value, defaultValue) ==
    IF value = "" THEN defaultValue
    ELSE IF ~ParseDuration(value).ok THEN defaultValue
    ELSE ParseDuration(value).val

\* loadConfig turning to the file's timeout when the environment's does not
\* parse
loadConfig_FileFallback(environ, file) ==
    LET fileConfig == loadConfigFile(file) IN
    [APIKey      |-> getEnvOrFileConfig(environ, envAPIKey,
                        MapGet(fileConfig, "OPENAI_API_KEY")),
     APIURL      |-> getEnvOrFileOrDefault(environ, envAPIURL,
                        MapGet(fileConfig, "OPENAI_API_URL"), defaultAPIURL),
     Model       |-> getEnvOrFileOrDefault(environ, envModel,
                        MapGet(fileConfig, "OPENAI_MODEL"), defaultModel),
     Timeout     |-> IF ParseDuration(environ[envTimeout]).ok
                     THEN ParseDuration(environ[envTimeout]).val
                     ELSE parseDurationOrDefault(
                              MapGet(fileConfig, "OPENAI_TIMEOUT"),
                              defaultTimeout),
     MaxTokens   |-> parseIntOrDefault(
                        getEnvOrFileConfig(environ, envMaxTokens,
                            MapGet(fileConfig, "OPENAI_MAX_TOKENS")),
                        defaultMaxTokens),
     Temperature |-> parseFloatOrDefault(
                        getEnvOrFileConfig(environ, envTemperature,
                            MapGet(fileConfig, "OPENAI_TEMPERATURE")),
                        defaultTemperature),
     ConfigDir   |-> getConfigDir(environ)]

\* the Config that loadConfig assembles (main.go, lines 115-126)
loadConfig(environ, file) ==
    LET fileConfig == loadConfigFile(file) IN
    [APIKey      |-> getEnvOrFileConfig(environ, envAPIKey,
                        MapGet(fileConfig, "OPENAI_API_KEY")),
     APIURL      |-> getEnvOrFileOrDefault(environ, envAPIURL,
                        MapGet(fileConfig, "OPENAI_API_URL"), defaultAPIURL),
     Model       |-> getEnvOrFileOrDefault(environ, envModel,
                        MapGet(fileConfig, "OPENAI_MODEL"), defaultModel),
     Timeout     |-> parseDurationOrDefault(
                        getEnvOrFileConfig(environ, envTimeout,
                            MapGet(fileConfig, "OPENAI_TIMEOUT")),
                        defaultTimeout),
     MaxTokens   |-> parseIntOrDefault(
                        getEnvOrFileConfig(environ, envMaxTokens,
                            MapGet(fileConfig, "OPENAI_MAX_TOKENS")),
                        defaultMaxTokens),
     Temperature |-> parseFloatOrDefault(
                        getEnvOrFileConfig(environ, envTemperature,
                            MapGet(fileConfig, "OPENAI_TEMPERATURE")),
                        defaultTemperature),
     ConfigDir   |-> getConfigDir(environ)]

\* the keys saveConfigFile writes, in its order (main.go, lines 175-182)
keys ==
    <<"OPENAI_API_KEY", "OPENAI_API_URL", "OPENAI_MODEL", "OPENAI_TIMEOUT",
      "OPENAI_MAX_TOKENS", "OPENAI_TEMPERATURE">>

\* the KEY=VALUE lines of saveConfigFile's second loop, from key i on
RECURSIVE KeyLines(_, _)
KeyLines(existingConfig, i) ==
    IF i > Len(keys) THEN <<>>
    ELSE IF keys[i] \in DOMAIN existingConfig /\ existingConfig[keys[i]] # ""
    THEN <<keys[i] \o "=" \o existingConfig[keys[i]]>>
         \o KeyLines(existingConfig, i + 1)
    ELSE KeyLines(existingConfig, i + 1)

\* the bytes saveConfigFile hands to os.WriteFile: now is
\* time.Now().Format("2006-01-02 15:04:05")
ConfigFileText(existingConfig, now) ==
    Join(<<"# ChatGPT CLI Configuration", "# Generated on " \o now, "">>
         \o KeyLines(existingConfig, 1), "\n") \o "\n"

\* saveConfigFile: the error it returns and the file it leaves.  writeOk is
\* whether os.WriteFile succeeds.
saveConfigFile(file, updates, now, writeOk) ==
    LET existingConfig == updates @@ loadConfigFile(file) IN
    IF writeOk
    THEN [err  |-> "",
          file |-> [exists |-> TRUE,
                    data   |-> ConfigFileText(existingConfig, now)]]
    ELSE [err |-> "open config: permission denied", file |-> file]

\* the validation switch of configSetCommand with max tokens compared by <
\* in place of <=
ValidateSetting_ZeroAccepted(key, value) ==
    CASE key = "OPENAI_API_KEY" ->
            IF value = "" THEN "API key cannot be empty" ELSE ""
      [] key = "OPENAI_API_URL" ->
            IF ~HasPrefix(value, "http://") /\ ~HasPrefix(value, "https://")
            THEN "API URL must start with http:// or https://" ELSE ""
      [] key = "OPENAI_MODEL" ->
            IF value = "" THEN "model cannot be empty" ELSE ""
      [] key = "OPENAI_TIMEOUT" ->
            IF ~ParseDuration(value).ok
            THEN "invalid timeout format (use format like '60s', '1m', '90s')"
            ELSE ""
      [] key = "OPENAI_MAX_TOKENS" ->
            IF ~Atoi(value).ok \/ Atoi(value).val < 0
            THEN "max tokens must be a positive integer" ELSE ""
      [] key = "OPENAI_TEMPERATURE" ->
            IF \/ ~ParseFloat(value).ok
               \/ FloatLess(ParseFloat(value).val, 0)
               \/ FloatGreater(ParseFloat(value).val, 2)
            THEN "temperature must be a number between 0.0 and 2.0" ELSE ""
      [] key = "CHATGPT_CLI_CONFIG_DIR" ->
            "CHATGPT_CLI_CONFIG_DIR cannot be set via config set command"
      [] OTHER -> "unknown configuration key: " \o key

\* the validation switch of configSetCommand (main.go, lines 485-523): the
\* error it returns, "" when the value passes
ValidateSetting(key, value) ==
    CASE key = "OPENAI_API_KEY" ->
            IF value = "" THEN "API key cannot be empty" ELSE ""
      [] key = "OPENAI_API_URL" ->
            IF ~HasPrefix(value, "http://") /\ ~HasPrefix(value, "https://")
            THEN "API URL must start with http:// or https://" ELSE ""
      [] key = "OPENAI_MODEL" ->
            IF value = "" THEN "model cannot be empty" ELSE ""
      [] key = "OPENAI_TIMEOUT" ->
            IF ~ParseDuration(value).ok
            THEN "invalid timeout format (use format like '60s', '1m', '90s')"
            ELSE ""
      [] key = "OPENAI_MAX_TOKENS" ->
            IF ~Atoi(value).ok \/ Atoi(value).val <= 0
            THEN "max tokens must be a positive integer" ELSE ""
      [] key = "OPENAI_TEMPERATURE" ->
            IF \/ ~ParseFloat(value).ok
               \/ FloatLess(ParseFloat(value).val, 0)
               \/ FloatGreater(ParseFloat(value).val, 2)
            THEN "temperature must be a number between 0.0 and 2.0" ELSE ""
      [] key = "CHATGPT_CLI_CONFIG_DIR" ->
            "CHATGPT_CLI_CONFIG_DIR cannot be set via config set command"
      [] OTHER -> "unknown configuration key: " \o key

\* configSetCommand that also stores the value in the Config it was given
configSetCommand_UpdatingConfig(conf, args, file, now, writeOk) ==
    LET key   == ToUpper(args[1])
        value == args[2]
        saved == saveConfigFile(file, key :> value, now, writeOk)
    IN
    IF Len(args) < 2
    THEN [err |-> "both key and value required\nUsage: chatgpt-cli config set <key> <value>",
          file |-> file, out |-> <<>>, conf |-> conf]
    ELSE IF ValidateSetting(key, value) # ""
    THEN [err |-> ValidateSetting(key, value), file |-> file, out |-> <<>>,
          conf |-> conf]
    ELSE IF saved.err # ""
    THEN [err  |-> "failed to save configuration: " \o saved.err,
          file |-> saved.file, out |-> <<>>, conf |-> conf]
    ELSE [err  |-> "", file |-> saved.file,
          out  |-> <<"Set " \o key \o "=" \o value,
                     "Configuration saved to " \o conf.ConfigDir \o "/config">>,
          conf |-> IF key = "OPENAI_MODEL" THEN [conf EXCEPT !.Model = value]
                   ELSE IF key = "OPENAI_API_KEY"
                   THEN [conf EXCEPT !.APIKey = value]
                   ELSE IF key = "OPENAI_API_URL"
                   THEN [conf EXCEPT !.APIURL = value]
                   ELSE conf]

\* configSetCommand saving the value before it has checked it
configSetCommand_SavingFirst(conf, args, file, now, writeOk) ==
    LET key   == ToUpper(args[1])
        value == args[2]
        saved == saveConfigFile(file, key :> value, now, writeOk)
    IN
    IF Len(args) < 2
    THEN [err |-> "both key and value required\nUsage: chatgpt-cli config set <key> <value>",
          file |-> file, out |-> <<>>, conf |-> conf]
    ELSE IF ValidateSetting(key, value) # ""
    THEN [err |-> ValidateSetting(key, value), file |-> saved.file,
          out |-> <<>>, conf |-> conf]
    ELSE IF saved.err # ""
    THEN [err  |-> "failed to save configuration: " \o saved.err,
          file |-> saved.file, out |-> <<>>, conf |-> conf]
    ELSE [err  |-> "", file |-> saved.file,
          out  |-> <<"Set " \o key \o "=" \o value,
                     "Configuration saved to " \o conf.ConfigDir \o "/config">>,
          conf |-> conf]

\* configSetCommand: the error returned, the config file left, the lines
\* printed and the Config it was given as it leaves it
configSetCommand(conf, args, file, now, writeOk) ==
    LET key   == ToUpper(args[1])
        value == args[2]
        saved == saveConfigFile(file, key :> value, now, writeOk)
    IN
    IF Len(args) < 2
    THEN [err |-> "both key and value required\nUsage: chatgpt-cli config set <key> <value>",
          file |-> file, out |-> <<>>, conf |-> conf]
    ELSE IF ValidateSetting(key, value) # ""
    THEN [err |-> ValidateSetting(key, value), file |-> file, out |-> <<>>,
          conf |-> conf]
    ELSE IF saved.err # ""
    THEN [err  |-> "failed to save configuration: " \o saved.err,
          file |-> saved.file, out |-> <<>>, conf |-> conf]
    ELSE [err  |-> "", file |-> saved.file,
          out  |-> <<"Set " \o key \o "=" \o value,
                     "Configuration saved to " \o conf.ConfigDir \o "/config">>,
          conf |-> conf]

(***************************************************************************)
(* encoding/json on a LogEntry, and logEntry: main.go, lines 89-96 and     *)
(* 615-646.  The texts of the model are ASCII.                             *)
(***************************************************************************)

\* json.Marshal's escape of one character of a string (HTML-safe, as
\* json.Marshal escapes by default)
EscapeChar(c) ==
    CASE c = "\"" -> "\\\""
      [] c = "\\" -> "\\\\"
      [] c = "\n" -> "\\n"
      [] c = "\r" -> "\\r"
      [] c = "\t" -> "\\t"
      [] c = "<"  -> "\\u003c"
      [] c = ">"  -> "\\u003e"
      [] c = "&"  -> "\\u0026"
      [] OTHER    -> c

\* the characters json.Marshal escapes
Escaped == {"\"", "\\", "\n", "\r", "\t", "<", ">", "&"}

RECURSIVE Escape(_)
Escape(s) ==
    LET j == IndexAny(s, Escaped, 1) IN
    IF j = 0 THEN s
    ELSE SubSeq(s, 1, j - 1) \o EscapeChar(CharAt(s, j))
            \o Escape(SubSeq(s, j + 1, Len(s)))

\* a Go string as a JSON string literal
Quote(s) == "\"" \o Escape(s) \o "\""

\* one field of a struct with the omitempty tag
OmitEmpty(name, value) ==
    IF value = "" THEN "" ELSE "," \o Quote(name) \o ":" \o Quote(value)

\* json.Marshal(entry) for a LogEntry [Timestamp, Command, Prompt, Response,
\* Error]; Timestamp is the time as time.Time marshals it (RFC 3339)
MarshalLogEntry(entry) ==
    "{" \o Quote("timestamp") \o ":" \o Quote(entry.Timestamp)
        \o "," \o Quote("command") \o ":" \o Quote(entry.Command)
        \o OmitEmpty("prompt", entry.Prompt)
        \o OmitEmpty("response", entry.Response)
        \o OmitEmpty("error", entry.Error)
        \o "}"

\* the character a \uXXXX escape denotes, for the escapes json.Marshal
\* writes; "" for any other
UnicodeEscape(hex) ==
    CASE ToLower(hex) = "003c" -> "<"
      [] ToLower(hex) = "003e" -> ">"
      [] ToLower(hex) = "0026" -> "&"
      [] OTHER -> ""

\* the decoder at position i inside a JSON string literal of s, acc being
\* the text decoded so far: [ok, val, next], next the position after the
\* closing quote.  j is the next character that is not taken as it is.
RECURSIVE ScanString(_, _, _)
ScanString(s, i, acc) ==
    LET j    == IndexAny(s, {"\"", "\\", "\n", "\r", "\t"}, i)
        c    == CharAt(s, j)
        e    == CharAt(s, j + 1)
        text == acc \o SubSeq(s, i, j - 1)
        fail == [ok |-> FALSE, val |-> "", next |-> 0]
    IN
    IF j = 0 THEN fail
    ELSE IF c = "\"" THEN [ok |-> TRUE, val |-> text, next |-> j + 1]
    ELSE IF c # "\\" THEN fail
    ELSE IF e \in {"\"", "\\", "/"} THEN ScanString(s, j + 2, text \o e)
    ELSE IF e = "n" THEN ScanString(s, j + 2, text \o "\n")
    ELSE IF e = "r" THEN ScanString(s, j + 2, text \o "\r")
    ELSE IF e = "t" THEN ScanString(s, j + 2, text \o "\t")
    ELSE IF e = "u" /\ j + 5 <= Len(s)
              /\ UnicodeEscape(SubSeq(s, j + 2, j + 5)) # ""
    THEN ScanString(s, j + 6, text \o UnicodeEscape(SubSeq(s, j + 2, j + 5)))
    ELSE fail

\* the members "name":"value" of an object from position i on, m being the
\* members read so far: [ok, val], ok only if the object closes at the end
\* of s
RECURSIVE ScanMembers(_, _, _)
ScanMembers(s, i, m) ==
    LET name == ScanString(s, i + 1, "")
        val  == ScanString(s, name.next + 2, "")
        fail == [ok |-> FALSE, val |-> EmptyMap]
    IN
    IF CharAt(s, i) # "\"" \/ ~name.ok THEN fail
    ELSE IF CharAt(s, name.next) # ":" \/ CharAt(s, name.next + 1) # "\""
    THEN fail
    ELSE IF ~val.ok THEN fail
    ELSE IF CharAt(s, val.next) = "}" /\ val.next = Len(s)
    THEN [ok |-> TRUE, val |-> (name.val :> val.val) @@ m]
    ELSE IF CharAt(s, val.next) = ","
    THEN ScanMembers(s, val.next + 1, (name.val :> val.val) @@ m)
    ELSE fail

\* a JSON object whose members are all strings, as a map; the lines of the
\* model's log files are such objects or are no JSON at all
ParseObject(s) ==
    IF s = "{}" THEN [ok |-> TRUE, val |-> EmptyMap]
    ELSE IF Len(s) < 2 \/ CharAt(s, 1) # "{"
    THEN [ok |-> FALSE, val |-> EmptyMap]
    ELSE ScanMembers(s, 2, EmptyMap)

\* json.Unmarshal(line, &entry) for a LogEntry: fields without a member keep
\* their zero value
UnmarshalLogEntry(line) ==
    LET o == ParseObject(line) IN
    [ok  |-> o.ok,
     val |-> [Timestamp |-> MapGet(o.val, "timestamp"),
              Command   |-> MapGet(o.val, "command"),
              Prompt    |-> MapGet(o.val, "prompt"),
              Response  |-> MapGet(o.val, "response"),
              Error     |-> MapGet(o.val, "error")]]

\* the LogEntry that logEntry builds (main.go, lines 617-623)
NewLogEntry(now, command, prompt, response, errorMsg) ==
    [Timestamp |-> now, Command |-> command, Prompt |-> prompt,
     Response |-> response, Error |-> errorMsg]

\* how an append can end: "ok"; "open" (os.OpenFile fails); "write" (f.Write
\* fails having written nothing); "partial" (f.Write fails having written
\* part of the record); "newline" (the record is written, the newline's
\* write fails)
LogOutcomes == {"ok", "open", "write", "partial", "newline"}

\* logEntry opening the file with O_TRUNC in place of O_APPEND
logEntry_Truncating(file, entry, outcome) ==
    LET data == MarshalLogEntry(entry) IN
    CASE outcome = "open"    -> file
      [] outcome = "write"   -> [exists |-> TRUE, data |-> ""]
      [] outcome = "partial" ->
            [exists |-> TRUE, data |-> SubSeq(data, 1, Len(data) \div 2)]
      [] outcome = "newline" -> [exists |-> TRUE, data |-> data]
      [] outcome = "ok"      -> [exists |-> TRUE, data |-> data \o "\n"]

\* logEntry with the record written without its newline
logEntry_NoNewline(file, entry, outcome) ==
    LET data == MarshalLogEntry(entry) IN
    CASE outcome = "open"    -> file
      [] outcome = "write"   -> [exists |-> TRUE, data |-> file.data]
      [] outcome = "partial" ->
            [exists |-> TRUE,
             data |-> file.data \o SubSeq(data, 1, Len(data) \div 2)]
      [] outcome \in {"newline", "ok"} ->
            [exists |-> TRUE, data |-> file.data \o data]

\* logEntry: the log file it leaves.  It returns nothing, whatever happens.
logEntry(file, entry, outcome) ==
    LET data == MarshalLogEntry(entry) IN
    CASE outcome = "open"    -> file
      [] outcome = "write"   -> [exists |-> TRUE, data |-> file.data]
      [] outcome = "partial" ->
            [exists |-> TRUE,
             data |-> file.data \o SubSeq(data, 1, Len(data) \div 2)]
      [] outcome = "newline" ->
            [exists |-> TRUE, data |-> file.data \o data]
      [] outcome = "ok"      ->
            [exists |-> TRUE, data |-> file.data \o data \o "\n"]

(***************************************************************************)
(* The chat client and the prompt handler: main.go, lines 306-338 and      *)
(* 535-613                                                                 *)
(***************************************************************************)

\* net/http's StatusOK
StatusOK == 200

\* url.Parse, as http.NewRequest calls it, on the URLs of the model: the
\* error it returns, "" when the URL parses
URLParseError(url) ==
    IF HasPrefix(url, ":") THEN "missing protocol scheme"
    ELSE IF \E i \in 1..Len(url) : CharAt(url, i) \in {"\n", "\r", "\t"}
    THEN "net/url: invalid control character in URL"
    ELSE ""

\* sendChatRequest up to http.NewRequest (main.go, lines 537-560): the error
\* returned before any request is sent, "" when the request is built.
\* json.Marshal rejects a float that is NaN or infinite.
BuildRequest(conf) ==
    IF conf.Temperature.kind # "num"
    THEN "failed to marshal request: json: unsupported value"
    ELSE IF URLParseError(conf.APIURL) # ""
    THEN "failed to create request: parse \"" \o conf.APIURL \o "\": "
            \o URLParseError(conf.APIURL)
    ELSE ""

\* the error of sendChatRequest when client.Do fails (main.go, lines 572-575)
DoError(conf, cause) ==
    "failed to send request: Post \"" \o conf.APIURL \o "\": " \o cause

ConnectionRefused == "dial tcp: connect: connection refused"

TimeoutExceeded ==
    "context deadline exceeded (Client.Timeout exceeded while awaiting headers)"

\* a response body: its bytes and what json.Unmarshal makes of them
\* (parseErr is Unmarshal's error, "" when the body has the response shape)
Body(raw, parseErr, hasError, errMessage, errType, choices) ==
    [raw |-> raw, parseErr |-> parseErr, hasError |-> hasError,
     errMessage |-> errMessage, errType |-> errType, choices |-> choices]

\* the bodies a server sends: completions with one, two and no choices, an
\* error object alone and beside a choice, and bodies that do not parse
Bodies ==
    {Body("{\"choices\":[{\"index\":0,\"message\":{\"role\":\"assistant\",\"content\":\"  Hello there!\\n\"}}]}",
          "", FALSE, "", "", <<"  Hello there!\n">>),
     Body("{\"choices\":[{\"message\":{\"content\":\"first\"}},{\"message\":{\"content\":\"second\"}}]}",
          "", FALSE, "", "", <<"first", "second">>),
     Body("{\"choices\":[]}", "", FALSE, "", "", <<>>),
     Body("{\"error\":{\"message\":\"Invalid API key\",\"type\":\"invalid_request_error\"}}",
          "", TRUE, "Invalid API key", "invalid_request_error", <<>>),
     Body("{\"error\":{\"message\":\"overloaded\",\"type\":\"server_error\"},\"choices\":[{\"message\":{\"content\":\"partial\"}}]}",
          "", TRUE, "overloaded", "server_error", <<"partial">>),
     Body("not json", "invalid character 'o' in literal null (expecting 'u')",
          FALSE, "", "", <<>>),
     Body("{\"choices\":\"none\"}",
          "json: cannot unmarshal string into Go struct field ChatResponse.choices of type []main.Choice",
          FALSE, "", "", <<>>)}

NoBody == Body("", "unexpected end of JSON input", FALSE, "", "", <<>>)

\* the statuses a server sends
Statuses == {200, 201, 400}

\* a ChatResponse: the contents of its choices' messages
NoResponse == [Choices |-> <<>>]

\* sendChatRequest once the body is read (main.go, lines 584-602), with the
\* API error looked for before the status code
HandleReply_ErrorFirst(status, body) ==
    IF body.parseErr = "" /\ body.hasError
    THEN [err |-> "API error: " \o body.errMessage
                    \o " (type: " \o body.errType \o ")",
          response |-> NoResponse]
    ELSE IF status # StatusOK
    THEN [err |-> "unexpected status code: " \o ToString(status)
                    \o ", response: " \o body.raw,
          response |-> NoResponse]
    ELSE IF body.parseErr # ""
    THEN [err |-> "failed to parse response: " \o body.parseErr,
          response |-> NoResponse]
    ELSE [err |-> "", response |-> [Choices |-> body.choices]]

\* sendChatRequest once the body is read (main.go, lines 584-602): the error
\* and the response it returns
HandleReply(status, body) ==
    IF status # StatusOK
    THEN [err |-> "unexpected status code: " \o ToString(status)
                    \o ", response: " \o body.raw,
          response |-> NoResponse]
    ELSE IF body.parseErr # ""
    THEN [err |-> "failed to parse response: " \o body.parseErr,
          response |-> NoResponse]
    ELSE IF body.hasError
    THEN [err |-> "API error: " \o body.errMessage
                    \o " (type: " \o body.errType \o ")",
          response |-> NoResponse]
    ELSE [err |-> "", response |-> [Choices |-> body.choices]]

\* formatResponse without the trim
formatResponse_Untrimmed(resp) ==
    IF Len(resp.Choices) = 0 THEN "No response received from ChatGPT"
    ELSE resp.Choices[1]

\* formatResponse
formatResponse(resp) ==
    IF Len(resp.Choices) = 0 THEN "No response received from ChatGPT"
    ELSE TrimSpace(resp.Choices[1])

\* the checks of promptCommand with the prompt text looked at before the
\* API key
PromptChecks_PromptFirst(conf, arguments) ==
    IF Len(arguments) = 0
    THEN "prompt text is required\nUsage: chatgpt-cli prompt \"your prompt here\""
    ELSE IF TrimSpace(Join(arguments, " ")) = "" THEN "prompt cannot be empty"
    ELSE IF conf.APIKey = ""
    THEN "missing API key: " \o envAPIKey \o " environment variable not set"
    ELSE ""

\* the checks of promptCommand before the request (main.go, lines 308-321):
\* the error returned, "" when the chat client is to be called
PromptChecks(conf, arguments) ==
    IF Len(arguments) = 0
    THEN "prompt text is required\nUsage: chatgpt-cli prompt \"your prompt here\""
    ELSE IF conf.APIKey = ""
    THEN "missing API key: " \o envAPIKey \o " environment variable not set"
    ELSE IF TrimSpace(Join(arguments, " ")) = "" THEN "prompt cannot be empty"
    ELSE ""

\* what promptCommand logs and returns when the client failed with the wrapped
\* text logged
PromptFailure_LogWrapped(err) ==
    [logged   |-> "failed to get response: " \o err,
     returned |-> "failed to get response: " \o err]

\* what promptCommand logs and returns when the client failed with err
\* (main.go, lines 325-328)
PromptFailure(err) ==
    [logged |-> err, returned |-> "failed to get response: " \o err]

(***************************************************************************)
(* The help, logs and config handlers and the dispatcher: main.go, lines   *)
(* 269-304, 340-473 and 648-715                                            *)
(***************************************************************************)

\* the decimal digits of n, at least width of them
RECURSIVE Digits(_, _)
Digits(n, width) ==
    IF Len(ToString(n)) >= width THEN ToString(n)
    ELSE "0" \o Digits(n, width - 1)

\* s without its trailing zeros
RECURSIVE TrimZeros(_)
TrimZeros(s) ==
    IF s # "" /\ CharAt(s, Len(s)) = "0"
    THEN TrimZeros(SubSeq(s, 1, Len(s) - 1)) ELSE s

\* time.Duration's String for a duration of ms milliseconds: "1m0s",
\* "1m30s", "1.5s", "250ms", "0s", "-1s"
RECURSIVE DurationString(_)
DurationString(ms) ==
    LET h    == ms \div 3600000
        m    == (ms \div 60000) % 60
        s    == (ms \div 1000) % 60
        frac == ms % 1000
        secs == ToString(s)
                  \o (IF frac = 0 THEN "" ELSE "." \o TrimZeros(Digits(frac, 3)))
                  \o "s"
    IN
    IF ms = 0 THEN "0s"
    ELSE IF ms < 0 THEN "-" \o DurationString(0 - ms)
    ELSE IF ms < 1000 THEN ToString(ms) \o "ms"
    ELSE (IF h > 0 THEN ToString(h) \o "h" ELSE "")
            \o (IF h > 0 \/ m > 0 THEN ToString(m) \o "m" ELSE "")
            \o secs

\* fmt's %v of a float64 whose decimal form is short: "0.7", "1", "NaN",
\* "+Inf"
FormatFloat(f) ==
    LET mag  == IF f.num < 0 THEN 0 - f.num ELSE f.num
        ip   == mag \div Pow10(f.scale)
        fp   == mag % Pow10(f.scale)
        sign == IF f.num < 0 THEN "-" ELSE ""
    IN
    IF f.kind = "nan" THEN "NaN"
    ELSE IF f.kind = "inf" THEN (IF f.num < 0 THEN "-Inf" ELSE "+Inf")
    ELSE IF f.scale = 0 THEN sign \o ToString(ip)
    ELSE sign \o ToString(ip) \o "." \o Digits(fp, f.scale)

\* fmt's %.1f of a float64: one digit after the point, the nearest such
\* number.  A value half way between two of them is rounded as its binary
\* form lies; the model's Configs hold no such value and the even
\* neighbour stands for it.
FormatFloat1(f) ==
    LET mag    == IF f.num < 0 THEN 0 - f.num ELSE f.num
        unit   == Pow10(f.scale - 1)
        down   == mag \div unit
        rest   == mag % unit
        tenths == IF f.scale <= 1 THEN mag * Pow10(1 - f.scale)
                  ELSE IF 2 * rest > unit THEN down + 1
                  ELSE IF 2 * rest < unit THEN down
                  ELSE IF down % 2 = 0 THEN down ELSE down + 1
        sign   == IF f.num < 0 THEN "-" ELSE ""
    IN
    IF f.kind = "nan" THEN "NaN"
    ELSE IF f.kind = "inf" THEN (IF f.num < 0 THEN "-Inf" ELSE "+Inf")
    ELSE sign \o ToString(tenths \div 10) \o "." \o ToString(tenths % 10)

\* the help text helpCommand prints (main.go, lines 271-302), line by line
HelpText ==
    <<"ChatGPT CLI - Command Line Interface for ChatGPT",
      "",
      "Usage:",
      "  chatgpt-cli <command> [arguments]",
      "",
      "Available Commands:",
      "  help                    Show this help message",
      "  prompt <text>           Send a prompt to ChatGPT",
      "  logs                    Display application logs",
      "  config list             List current configuration",
      "  config get <key>        Get a configuration value",
      "  config set <key> <val>  Set a configuration value",
      "",
      "Examples:",
      "  chatgpt-cli prompt \"Explain Go interfaces\"",
      "  chatgpt-cli logs",
      "  chatgpt-cli config list",
      "  chatgpt-cli config set OPENAI_MODEL gpt-4",
      "",
      "Configuration:",
      "  Configuration is managed via environment variables:",
      "    OPENAI_API_KEY       - Your OpenAI API key (required)",
      "    OPENAI_API_URL       - API endpoint URL (default: "
            \o defaultAPIURL \o ")",
      "    OPENAI_MODEL         - Model to use (default: " \o defaultModel \o ")",
      "    OPENAI_TIMEOUT       - Request timeout (default: "
            \o DurationString(defaultTimeout) \o ")",
      "    OPENAI_MAX_TOKENS    - Max tokens in response (default: "
            \o ToString(defaultMaxTokens) \o ")",
      "    OPENAI_TEMPERATURE   - Response randomness 0.0-2.0 (default: "
            \o FormatFloat1(defaultTemperature) \o ")",
      "    CHATGPT_CLI_CONFIG_DIR - Config directory (default: ~/.chatgpt-cli)",
      "",
      "For more information, visit: https://github.com/umbertocicciaa/chatgpt-cli">>

\* helpCommand: the error it returns and the lines it prints
helpCommand == [err |-> "", out |-> HelpText]

\* the mask applied from 8 characters on
MaskAPIKey_FromEight(apiKey) ==
    IF apiKey = "" THEN "(not set)"
    ELSE IF Len(apiKey) >= 8
    THEN SubSeq(apiKey, 1, 4) \o "..."
            \o SubSeq(apiKey, Len(apiKey) - 3, Len(apiKey))
    ELSE "***"

\* the API key as config list and config get show it (main.go, lines
\* 413-422 and 445-454)
MaskAPIKey(apiKey) ==
    IF apiKey = "" THEN "(not set)"
    ELSE IF Len(apiKey) > 8
    THEN SubSeq(apiKey, 1, 4) \o "..."
            \o SubSeq(apiKey, Len(apiKey) - 3, Len(apiKey))
    ELSE "***"

\* fmt's %-25s: s padded with spaces on the right to 25 characters
RECURSIVE Pad25(_)
Pad25(s) == IF Len(s) >= 25 THEN s ELSE Pad25(s \o " ")

\* the rule configListCommand prints under its title: 51 box-drawing
\* characters in the source, written here with "="
ListRule == "==================================================="

\* configListCommand: the error it returns and the lines it prints
configListCommand(conf) ==
    [err |-> "",
     out |-> <<"Current Configuration:",
               ListRule,
               Pad25("OPENAI_API_KEY:") \o " " \o MaskAPIKey(conf.APIKey),
               Pad25("OPENAI_API_URL:") \o " " \o conf.APIURL,
               Pad25("OPENAI_MODEL:") \o " " \o conf.Model,
               Pad25("OPENAI_TIMEOUT:") \o " " \o DurationString(conf.Timeout),
               Pad25("OPENAI_MAX_TOKENS:") \o " " \o ToString(conf.MaxTokens),
               Pad25("OPENAI_TEMPERATURE:") \o " "
                    \o FormatFloat1(conf.Temperature),
               Pad25("CHATGPT_CLI_CONFIG_DIR:") \o " " \o conf.ConfigDir>>]

\* configGetCommand: the error it returns and the lines it prints
configGetCommand(conf, arguments) ==
    LET key == ToUpper(arguments[1])
        shown(line) == [err |-> "", out |-> <<line>>]
    IN
    IF Len(arguments) = 0
    THEN [err |-> "configuration key required\nUsage: chatgpt-cli config get <key>",
          out |-> <<>>]
    ELSE CASE key = "OPENAI_API_KEY"     -> shown(MaskAPIKey(conf.APIKey))
           [] key = "OPENAI_API_URL"     -> shown(conf.APIURL)
           [] key = "OPENAI_MODEL"       -> shown(conf.Model)
           [] key = "OPENAI_TIMEOUT"     -> shown(DurationString(conf.Timeout))
           [] key = "OPENAI_MAX_TOKENS"  -> shown(ToString(conf.MaxTokens))
           [] key = "OPENAI_TEMPERATURE" -> shown(FormatFloat(conf.Temperature))
           [] key = "CHATGPT_CLI_CONFIG_DIR" -> shown(conf.ConfigDir)
           [] OTHER -> [err |-> "unknown configuration key: " \o key,
                        out |-> <<>>]

\* configCommand: the error it returns, the config file it leaves, the
\* lines it prints and the Config as it leaves it
configCommand(conf, arguments, file, now, writeOk) ==
    LET rest == SubSeq(arguments, 2, Len(arguments))
        kept(r) == [err |-> r.err, file |-> file, out |-> r.out, conf |-> conf]
    IN
    IF Len(arguments) = 0
    THEN [err |-> "config subcommand required\nUsage: chatgpt-cli config <list|get|set>",
          file |-> file, out |-> <<>>, conf |-> conf]
    ELSE CASE arguments[1] = "list" -> kept(configListCommand(conf))
           [] arguments[1] = "get"  -> kept(configGetCommand(conf, rest))
           [] arguments[1] = "set"  ->
                configSetCommand(conf, rest, file, now, writeOk)
           [] OTHER ->
                [err |-> "unknown config subcommand: " \o arguments[1]
                            \o "\nValid subcommands: list, get, set",
                 file |-> file, out |-> <<>>, conf |-> conf]

\* truncate panics: s[:maxLen-3] with a negative bound
truncatePanics(s, maxLen) == Len(s) > maxLen /\ maxLen < 3

\* truncate, where it does not panic
truncate(s, maxLen) ==
    IF Len(s) <= maxLen THEN s
    ELSE SubSeq(s, 1, maxLen - 3) \o "..."

\* json.Unmarshal of a timestamp into time.Time and its Format as
\* "2006-01-02 15:04:05", for UTC times of whole seconds
\* ("2026-01-02T15:04:05Z"); a LogEntry decoded without timestamp keeps the
\* zero time
FormatTimestamp(text) ==
    LET wellFormed ==
            /\ Len(text) = 20
            /\ AllDigits(SubSeq(text, 1, 4)) /\ CharAt(text, 5) = "-"
            /\ AllDigits(SubSeq(text, 6, 7)) /\ CharAt(text, 8) = "-"
            /\ AllDigits(SubSeq(text, 9, 10)) /\ CharAt(text, 11) = "T"
            /\ AllDigits(SubSeq(text, 12, 13)) /\ CharAt(text, 14) = ":"
            /\ AllDigits(SubSeq(text, 15, 16)) /\ CharAt(text, 17) = ":"
            /\ AllDigits(SubSeq(text, 18, 19)) /\ CharAt(text, 20) = "Z"
    IN
    IF text = "" THEN [ok |-> TRUE, val |-> "0001-01-01 00:00:00"]
    ELSE IF wellFormed
    THEN [ok |-> TRUE,
          val |-> SubSeq(text, 1, 10) \o " " \o SubSeq(text, 12, 19)]
    ELSE [ok |-> FALSE, val |-> ""]

\* the loop of logsCommand numbering its entries with the loop index itself
EntryShown_FromZero(entry, ts, i) ==
    <<"[" \o ToString(i) \o "] " \o ts \o " - " \o entry.Command>>
        \o (IF entry.Prompt # ""
            THEN <<"    Prompt: " \o truncate(entry.Prompt, 80)>> ELSE <<>>)
        \o (IF entry.Response # ""
            THEN <<"    Response: " \o truncate(entry.Response, 80)>>
            ELSE <<>>)
        \o (IF entry.Error # ""
            THEN <<"    Error: " \o entry.Error>> ELSE <<>>)
        \o <<"">>

\* what the loop of logsCommand prints for the entry decoded from the line
\* with index i (from 0), ts being its timestamp as formatted
EntryShown(entry, ts, i) ==
    <<"[" \o ToString(i + 1) \o "] " \o ts \o " - " \o entry.Command>>
        \o (IF entry.Prompt # ""
            THEN <<"    Prompt: " \o truncate(entry.Prompt, 80)>> ELSE <<>>)
        \o (IF entry.Response # ""
            THEN <<"    Response: " \o truncate(entry.Response, 80)>>
            ELSE <<>>)
        \o (IF entry.Error # ""
            THEN <<"    Error: " \o entry.Error>> ELSE <<>>)
        \o <<"">>

\* what the loop of logsCommand prints for the line with index i: nothing
\* for a line that does not decode
LogLineShown(line, i) ==
    CHOOSE shown \in
        {IF d.ok /\ ts.ok THEN EntryShown(d.val, ts.val, i) ELSE <<>> :
            d \in {UnmarshalLogEntry(line)},
            ts \in {FormatTimestamp(UnmarshalLogEntry(line).val.Timestamp)}} :
        TRUE

RECURSIVE LogLinesShown(_, _)
LogLinesShown(lines, i) ==
    IF i >= Len(lines) THEN <<>>
    ELSE LogLineShown(lines[i + 1], i) \o LogLinesShown(lines, i + 1)

\* logsCommand: the error it returns and the lines it prints.  readOk is
\* whether os.ReadFile succeeds.
logsCommand(file, readOk) ==
    LET lines == Split(TrimSpace(file.data), "\n") IN
    IF ~file.exists THEN [err |-> "", out |-> <<"No logs found.">>]
    ELSE IF ~readOk
    THEN [err |-> "failed to read logs: open logs.jsonl: permission denied",
          out |-> <<>>]
    ELSE IF Len(file.data) = 0 THEN [err |-> "", out |-> <<"No logs found.">>]
    ELSE [err |-> "",
          out |-> <<"Showing " \o ToString(Len(lines)) \o " log entries:", "">>
                    \o LogLinesShown(lines, 0)]

\* getCommands: the names it maps to handlers
getCommands == {"help", "prompt", "logs", "config"}

\* parseCommand handing the command name on with the arguments
parseCommand_KeepingName(rawArgs) ==
    IF Len(rawArgs) < 2 THEN [name |-> "help", args |-> <<>>]
    ELSE [name |-> rawArgs[2], args |-> SubSeq(rawArgs, 2, Len(rawArgs))]

\* parseCommand
parseCommand(rawArgs) ==
    IF Len(rawArgs) < 2 THEN [name |-> "help", args |-> <<>>]
    ELSE [name |-> rawArgs[2], args |-> SubSeq(rawArgs, 3, Len(rawArgs))]

(***************************************************************************)
(* The state: the process environment, the two files of the config         *)
(* directory, and one CLI process (main.go, lines 690-715) at a time.      *)
(***************************************************************************)

VARIABLES
    env,         \* os.Getenv: variable name -> value, "" when unset
    configFile,  \* <ConfigDir>/config: [exists, data]
    startup,     \* "pending", "loaded" (loadConfig returned a Config), "failed"
    config,      \* the *Config that loadConfig returned
    lastSet,     \* the latest config set: [called, args, err, out]
    reloaded,    \* loadConfig has run since the latest config set
    sets,        \* the number of config set invocations so far
    logFile,     \* <ConfigDir>/logs.jsonl: [exists, data]
    logCalls,    \* the logEntry calls so far: [entry, outcome] each
    pc,          \* where promptCommand is: "idle", "client", "waiting",
                 \* "failed", "logged", "succeeded", "printed", "recorded",
                 \* "done"
    args,        \* promptCommand's args
    prompt,      \* its local prompt
    requests,    \* the client.Do calls: the HTTP requests sent
    server,      \* how the server behaves: "answers", "refuses", "silent"
    reply,       \* what io.ReadAll got: [received, status, body]
    clientErr,   \* the error sendChatRequest returned, "" for nil
    response,    \* the *ChatResponse it returned
    content,     \* promptCommand's local content
    stdout,      \* the lines printed on standard output
    result,      \* the error the handler returned, "" for nil
    osArgs,      \* os.Args of the invocation under way
    handlers,    \* the handlers main has called through the command table
    stderr,      \* the lines printed on standard error
    exitCode,    \* the exit status of the process, -1 while it runs
    runs,        \* the number of invocations started so far
    procs,       \* the processes running side by side on the same config
                 \* directory: process -> what it is doing and holds
    writes,      \* the processes in the order of their writes so far
    call         \* a call of truncate: [s, maxLen, status, result]

configVars == <<env, configFile, startup, config>>
setVars    == <<lastSet, reloaded, sets>>
logVars    == <<logFile, logCalls>>
promptVars == <<pc, args, prompt, requests, server, reply, clientErr,
                response, content, stdout, result>>

mainVars   == <<osArgs, handlers, stderr, exitCode, runs>>
raceVars   == <<procs, writes, call>>

vars == <<configVars, setVars, logVars, promptVars, mainVars, raceVars>>

AllEnvKeys == EnvKeys \cup {envConfigDir}

NoEnv == [k \in AllEnvKeys |-> ""]

NoFile == [exists |-> FALSE, data |-> ""]

\* the value of config before loadConfig has run
NoConfig ==
    [APIKey |-> "", APIURL |-> "", Model |-> "", Timeout |-> 0,
     MaxTokens |-> 0, Temperature |-> Decimal(0, 0), ConfigDir |-> ""]

NoSet == [called |-> FALSE, args |-> <<>>, err |-> "", out |-> <<>>]

NoReply == [received |-> FALSE, status |-> 0, body |-> NoBody]

\* no config set has run
NoSets == lastSet = NoSet /\ reloaded = FALSE /\ sets = 0

\* logEntry has not been called
NoLogCalls == logCalls = <<>>

\* promptCommand has not been entered
NoPrompt ==
    /\ pc = "idle" /\ args = <<>> /\ prompt = "" /\ requests = 0
    /\ server = "none" /\ reply = NoReply /\ clientErr = ""
    /\ response = NoResponse /\ content = "" /\ stdout = <<>> /\ result = ""

\* main is not followed: handlers are called as the tests call them
\* no call of truncate outside logsCommand
NoCall == [s |-> "", maxLen |-> 0, status |-> "none", result |-> ""]

\* no processes run side by side
NoRace == procs = <<>> /\ writes = <<>> /\ call = NoCall

NoMain ==
    /\ osArgs = <<>> /\ handlers = <<>> /\ stderr = <<>>
    /\ exitCode = -1 /\ runs = 0
    /\ NoRace

\* what the generated timestamps can read
Timestamps == {"2026-01-02 15:04:05", "2026-01-02 15:04:06"}

\* main's first step: loadConfig.  os.MkdirAll may fail, and then no Config
\* is returned.
LoadConfig ==
    /\ \E mkdirOk \in BOOLEAN :
          IF mkdirOk
          THEN /\ startup' = "loaded"
               /\ config' = loadConfig(env, configFile)
          ELSE /\ startup' = "failed"
               /\ config' = NoConfig
    /\ reloaded' = TRUE
    /\ UNCHANGED <<mainVars, raceVars, env, configFile, lastSet, sets, logVars, promptVars>>

(***************************************************************************)
(* SpecLoad: loadConfig over environments and config files                 *)
(***************************************************************************)

\* the environments drawn: per variable unset, a well-formed value, and for
\* the typed fields text that does not parse or lies outside the field's
\* range
EnvValues(k) ==
    CASE k = envAPIKey      -> {"", "sk-env"}
      [] k = envAPIURL      -> {"", "https://env.example/v1"}
      [] k = envModel       -> {"", "gpt-4-turbo"}
      [] k = envTimeout     -> {"", "90s", "soon", "0s"}
      [] k = envMaxTokens   -> {"", "2000", "many", "-5"}
      [] k = envTemperature -> {"", "1.5", "hot", "3.0"}
      [] k = envConfigDir   -> {"", "/tmp/cfg"}

\* an environment, variable by variable
Environ(apiKey, apiURL, model, timeout, maxTokens, temperature, configDir) ==
    [k \in AllEnvKeys |->
        CASE k = envAPIKey      -> apiKey
          [] k = envAPIURL      -> apiURL
          [] k = envModel       -> model
          [] k = envTimeout     -> timeout
          [] k = envMaxTokens   -> maxTokens
          [] k = envTemperature -> temperature
          [] k = envConfigDir   -> configDir]

Environments ==
    {Environ(a, u, m, t, n, f, d) :
        a \in EnvValues(envAPIKey), u \in EnvValues(envAPIURL),
        m \in EnvValues(envModel), t \in EnvValues(envTimeout),
        n \in EnvValues(envMaxTokens), f \in EnvValues(envTemperature),
        d \in EnvValues(envConfigDir)}

\* the config files drawn: none, an empty one, one as saveConfigFile writes
\* it, a hand-edited one, one whose values do not parse, one whose values
\* are out of range
SavedFile ==
    [exists |-> TRUE, data |->
        "# ChatGPT CLI Configuration\n# Generated on 2026-01-02 15:04:05\n\nOPENAI_API_KEY=sk-file\nOPENAI_API_URL=http://file.example/v1\nOPENAI_MODEL=gpt-4\nOPENAI_TIMEOUT=2m\nOPENAI_MAX_TOKENS=500\nOPENAI_TEMPERATURE=0.2\n"]

EditedFile ==
    [exists |-> TRUE, data |->
        "# mine\n\n  OPENAI_MODEL = gpt-4o \nOPENAI_MAX_TOKENS=500\nOPENAI_API_KEY=\nnot a setting\nOPENAI_ORG=acme\n"]

ConfigFiles ==
    {NoFile,
     [exists |-> TRUE, data |-> ""],
     SavedFile,
     EditedFile,
     [exists |-> TRUE, data |->
        "OPENAI_TIMEOUT=later\nOPENAI_MAX_TOKENS=lots\nOPENAI_TEMPERATURE=warm\n"],
     [exists |-> TRUE, data |->
        "OPENAI_TIMEOUT=-5s\nOPENAI_MAX_TOKENS=0\nOPENAI_TEMPERATURE=-0.1\n"]}

InitLoad ==
    /\ env \in Environments
    /\ configFile \in ConfigFiles
    /\ startup = "pending"
    /\ config = NoConfig
    /\ NoSets
    /\ logFile = NoFile
    /\ NoLogCalls
    /\ NoPrompt
    /\ NoMain

NextLoad == startup = "pending" /\ LoadConfig

SpecLoad == InitLoad /\ [][NextLoad]_vars

\* the value the config file gives key k, "" when it has none
FileValue(k) == MapGet(loadConfigFile(configFile), k)

\* actual is resolved from the environment value e, else from the file value
\* f, else is the default d
ResolvedString(e, f, d, actual) ==
    /\ e # "" => actual = e
    /\ (e = "" /\ f # "") => actual = f
    /\ (e = "" /\ f = "") => actual = d

\* the same for a typed field: pe and pf are the parses of e and f
ResolvedTyped(e, pe, f, pf, d, actual) ==
    /\ (e # "" /\ pe.ok) => actual = pe.val
    /\ (e = "" /\ f # "" /\ pf.ok) => actual = pf.val
    /\ (e = "" /\ f = "") => actual = d

\* C1: every field of the Config that loadConfig returns is the environment
\* variable's value when the variable is set, otherwise the config file's
\* value when the file has one, otherwise the built-in default (none for
\* APIKey, which is then empty); for Timeout, MaxTokens and Temperature the
\* value is the parse of that text.
C1_Precedence ==
    startup = "loaded" =>
        /\ ResolvedString(env[envAPIKey], FileValue("OPENAI_API_KEY"), "",
                          config.APIKey)
        /\ ResolvedString(env[envAPIURL], FileValue("OPENAI_API_URL"),
                          defaultAPIURL, config.APIURL)
        /\ ResolvedString(env[envModel], FileValue("OPENAI_MODEL"),
                          defaultModel, config.Model)
        /\ ResolvedTyped(env[envTimeout], ParseDuration(env[envTimeout]),
                         FileValue("OPENAI_TIMEOUT"),
                         ParseDuration(FileValue("OPENAI_TIMEOUT")),
                         defaultTimeout, config.Timeout)
        /\ ResolvedTyped(env[envMaxTokens], Atoi(env[envMaxTokens]),
                         FileValue("OPENAI_MAX_TOKENS"),
                         Atoi(FileValue("OPENAI_MAX_TOKENS")),
                         defaultMaxTokens, config.MaxTokens)
        /\ ResolvedTyped(env[envTemperature], ParseFloat(env[envTemperature]),
                         FileValue("OPENAI_TEMPERATURE"),
                         ParseFloat(FileValue("OPENAI_TEMPERATURE")),
                         defaultTemperature, config.Temperature)

\* C1's case: the environment and the file both give Model and MaxTokens,
\* with different values, and the loaded Config has the environment's
C1_Witness ==
    /\ startup = "loaded"
    /\ env[envModel] = "gpt-4-turbo" /\ FileValue("OPENAI_MODEL") = "gpt-4"
    /\ config.Model = "gpt-4-turbo"
    /\ env[envMaxTokens] = "2000" /\ FileValue("OPENAI_MAX_TOKENS") = "500"
    /\ config.MaxTokens = 2000
    /\ env[envTemperature] = "" /\ config.Temperature = Decimal(2, 1)

\* C3: in every Config that loadConfig returns, APIURL and Model are
\* non-empty, Timeout is not zero, MaxTokens is positive and Temperature lies
\* in [0.0, 2.0].
C3_LoadedConfigWellFormed ==
    startup = "loaded" =>
        /\ config.APIURL # ""
        /\ config.Model # ""
        /\ config.Timeout # 0
        /\ config.MaxTokens > 0
        /\ config.Temperature.kind = "num"
        /\ ~FloatLess(config.Temperature, 0)
        /\ ~FloatGreater(config.Temperature, 2)

(***************************************************************************)
(* SpecSet: config set invocations and fresh loadConfig calls on one       *)
(* config directory                                                        *)
(***************************************************************************)

\* how many config set invocations a behaviour holds
MaxSets == 2

\* the argument lists given to config set (after "config set"): for each
\* key values that pass and values that fail its rule, a key in lower case,
\* values with surrounding white space, a value of two lines, too few and
\* too many arguments
SetArgs ==
    {<<"OPENAI_API_KEY", "sk-new">>, <<"OPENAI_API_KEY", "">>,
     <<"OPENAI_API_KEY", " ">>,
     <<"OPENAI_API_URL", "https://set.example/v1">>,
     <<"OPENAI_API_URL", "ftp://set.example">>,
     <<"OPENAI_MODEL", "gpt-4">>, <<"openai_model", "gpt-4o">>,
     <<"OPENAI_MODEL", " gpt-4">>, <<"OPENAI_MODEL", "">>,
     <<"OPENAI_TIMEOUT", "2m">>, <<"OPENAI_TIMEOUT", "soon">>,
     <<"OPENAI_MAX_TOKENS", "2000">>, <<"OPENAI_MAX_TOKENS", "0">>,
     <<"OPENAI_MAX_TOKENS", "-100">>,
     <<"OPENAI_TEMPERATURE", "2.0">>, <<"OPENAI_TEMPERATURE", "3.0">>,
     <<"OPENAI_TEMPERATURE", "-0.1">>, <<"OPENAI_TEMPERATURE", "0">>,
     <<"OPENAI_TEMPERATURE", "NaN">>, <<"OPENAI_TEMPERATURE", "warm">>,
     <<"CHATGPT_CLI_CONFIG_DIR", "/tmp/other">>, <<"OPENAI_ORG", "acme">>,
     <<"OPENAI_MODEL", "gpt-4\nOPENAI_API_KEY=sk-other">>,
     <<"OPENAI_MODEL">>, <<>>, <<"OPENAI_MODEL", "gpt-4", "extra">>}

\* the handler of "config set", run by a process whose loadConfig succeeded
ConfigSet ==
    /\ startup = "loaded"
    /\ sets < MaxSets
    /\ \E a \in SetArgs, now \in Timestamps, writeOk \in BOOLEAN :
          \E r \in {configSetCommand(config, a, configFile, now, writeOk)} :
          /\ configFile' = r.file
          /\ config' = r.conf
          /\ lastSet' = [called |-> TRUE, args |-> a, err |-> r.err,
                         out |-> r.out]
    /\ reloaded' = FALSE
    /\ sets' = sets + 1
    /\ UNCHANGED <<mainVars, raceVars, env, startup, logVars, promptVars>>

\* the environments of SpecSet: nothing set, and Model and Temperature set
SetEnvironments ==
    {NoEnv, Environ("", "", "gpt-4-turbo", "", "", "1.5", "")}

InitSet ==
    /\ env \in SetEnvironments
    /\ configFile \in {NoFile, SavedFile, EditedFile}
    /\ startup = "pending"
    /\ config = NoConfig
    /\ NoSets
    /\ logFile = NoFile
    /\ NoLogCalls
    /\ NoPrompt
    /\ NoMain

NextSet == LoadConfig \/ ConfigSet

SpecSet == InitSet /\ [][NextSet]_vars

\* the field of a Config that a settable key names
SettingOf(conf, key) ==
    CASE key = "OPENAI_API_KEY"     -> conf.APIKey
      [] key = "OPENAI_API_URL"     -> conf.APIURL
      [] key = "OPENAI_MODEL"       -> conf.Model
      [] key = "OPENAI_TIMEOUT"     -> conf.Timeout
      [] key = "OPENAI_MAX_TOKENS"  -> conf.MaxTokens
      [] key = "OPENAI_TEMPERATURE" -> conf.Temperature

\* the value of that field's type that the text VAL denotes
SettingValue(key, value) ==
    CASE key = "OPENAI_TIMEOUT"     -> ParseDuration(value).val
      [] key = "OPENAI_MAX_TOKENS"  -> Atoi(value).val
      [] key = "OPENAI_TEMPERATURE" -> ParseFloat(value).val
      [] OTHER                      -> value

\* the latest config set succeeded and loadConfig has returned a Config
\* since, with no environment variable set for its key
SetThenLoaded ==
    /\ lastSet.called /\ lastSet.err = ""
    /\ reloaded /\ startup = "loaded"
    /\ env[ToUpper(lastSet.args[1])] = ""

\* C2: after config set KEY VAL succeeds, a later loadConfig with no
\* environment variable for KEY resolves KEY's field to VAL.
C2_RoundTrip ==
    SetThenLoaded =>
        SettingOf(config, ToUpper(lastSet.args[1]))
            = SettingValue(ToUpper(lastSet.args[1]), lastSet.args[2])

(***************************************************************************)
(* SpecPrompt: one process running the prompt command                      *)
(***************************************************************************)

\* time.Now() as the k-th log entry's timestamp marshals
LogTime(k) == "2026-01-02T15:04:0" \o ToString(k) \o "Z"

\* the argument lists given to prompt: none, white space only, plain words,
\* text with characters JSON escapes
PromptArgs ==
    {<<>>, <<"   ">>, <<"", "\t">>, <<"Hello", "World">>,
     <<"say \"hi\" & <go>\n">>}

\* promptCommand logging the prompts it rejects
PromptStartWith_LoggingRejected(a) ==
    /\ startup = "loaded"
    /\ pc = "idle"
    /\ args' = a
    /\ IF PromptChecks(config, a) # ""
       THEN /\ result' = PromptChecks(config, a)
            /\ prompt' = ""
            /\ pc' = "done"
            /\ logFile' = logEntry(logFile,
                                   NewLogEntry(LogTime(0), "prompt",
                                               Join(a, " "), "",
                                               PromptChecks(config, a)),
                                   "ok")
            /\ UNCHANGED logCalls
       ELSE /\ prompt' = Join(a, " ")
            /\ pc' = "client"
            /\ UNCHANGED <<result, logVars>>
    /\ UNCHANGED <<configVars, setVars, requests, server, reply,
                   clientErr, response, content, stdout>>

\* promptCommand called with a, up to the call of sendChatRequest (main.go,
\* lines 307-324)
PromptStartWith(a) ==
    /\ startup = "loaded"
    /\ pc = "idle"
    /\ args' = a
    /\ IF PromptChecks(config, a) # ""
       THEN /\ result' = PromptChecks(config, a)
            /\ prompt' = ""
            /\ pc' = "done"
       ELSE /\ prompt' = Join(a, " ")
            /\ pc' = "client"
            /\ UNCHANGED result
    /\ UNCHANGED <<configVars, setVars, logVars, requests, server, reply,
                   clientErr, response, content, stdout>>

\* promptCommand called as the tests call it
PromptStart ==
    /\ \E a \in PromptArgs : PromptStartWith(a)
    /\ UNCHANGED <<mainVars, raceVars>>

\* sendChatRequest up to client.Do (main.go, lines 536-572): the request is
\* built and handed to the HTTP client, or building it fails
SendRequest ==
    /\ pc = "client"
    /\ IF BuildRequest(config) # ""
       THEN /\ clientErr' = BuildRequest(config)
            /\ pc' = "failed"
            /\ UNCHANGED <<requests, server>>
       ELSE /\ requests' = requests + 1
            /\ server' \in {"answers", "refuses", "silent"}
            /\ pc' = "waiting"
            /\ UNCHANGED clientErr
    /\ UNCHANGED <<mainVars, raceVars, configVars, setVars, logVars, args, prompt, reply,
                   response, content, stdout, result>>

\* client.Do and io.ReadAll return: the server's status and body arrive, or
\* the body's read fails (main.go, lines 572-602)
ServerResponds ==
    /\ pc = "waiting"
    /\ server = "answers"
    /\ \E status \in Statuses, body \in Bodies \cup {NoBody}, readOk \in BOOLEAN :
          /\ reply' = [received |-> readOk, status |-> status, body |-> body]
          /\ IF readOk
             THEN /\ clientErr' = HandleReply(status, body).err
                  /\ response' = HandleReply(status, body).response
                  /\ pc' = IF HandleReply(status, body).err = ""
                           THEN "succeeded" ELSE "failed"
             ELSE /\ clientErr' = "failed to read response: unexpected EOF"
                  /\ response' = NoResponse
                  /\ pc' = "failed"
    /\ UNCHANGED <<mainVars, raceVars, configVars, setVars, logVars, args, prompt, requests,
                   server, content, stdout, result>>

\* client.Do fails to connect and the request is tried once more
ConnectionFails_Retry ==
    /\ pc = "waiting"
    /\ server = "refuses"
    /\ clientErr' = DoError(config, ConnectionRefused)
    /\ pc' = IF requests < 2 THEN "client" ELSE "failed"
    /\ UNCHANGED <<mainVars, raceVars, configVars, setVars, logVars, args, prompt, requests,
                   server, reply, response, content, stdout, result>>

\* client.Do fails to connect (main.go, lines 572-575)
ConnectionFails ==
    /\ pc = "waiting"
    /\ server = "refuses"
    /\ clientErr' = DoError(config, ConnectionRefused)
    /\ pc' = "failed"
    /\ UNCHANGED <<mainVars, raceVars, configVars, setVars, logVars, args, prompt, requests,
                   server, reply, response, content, stdout, result>>

\* http.Client's Timeout ends the exchange (main.go, lines 567-575): a
\* Timeout that is not positive sets no deadline
TimeoutFires ==
    /\ pc = "waiting"
    /\ config.Timeout > 0
    /\ clientErr' = DoError(config, TimeoutExceeded)
    /\ pc' = "failed"
    /\ UNCHANGED <<mainVars, raceVars, configVars, setVars, logVars, args, prompt, requests,
                   server, reply, response, content, stdout, result>>

\* a call of logEntry: the file changes as the append ends, and nothing is
\* returned
LogEntryCall(command, promptText, responseText, errorMsg) ==
    \E outcome \in LogOutcomes :
        LET entry == NewLogEntry(LogTime(Len(logCalls)), command, promptText,
                                 responseText, errorMsg)
        IN
        /\ logFile' = logEntry(logFile, entry, outcome)
        /\ logCalls' = Append(logCalls, [entry |-> entry, outcome |-> outcome])

\* promptCommand goes on to return the error without logging the attempt
LogFailure_Skipped ==
    /\ pc = "failed"
    /\ pc' = "logged"
    /\ UNCHANGED <<mainVars, raceVars, configVars, setVars, logVars, args, prompt,
                   requests, server, reply, clientErr, response, content,
                   stdout, result>>

\* promptCommand logs the failed attempt (main.go, line 326)
LogFailure ==
    /\ pc = "failed"
    /\ LogEntryCall("prompt", prompt, "", PromptFailure(clientErr).logged)
    /\ pc' = "logged"
    /\ UNCHANGED <<mainVars, raceVars, configVars, setVars, args, prompt, requests, server, reply,
                   clientErr, response, content, stdout, result>>

\* promptCommand returns the wrapped error (main.go, line 327)
ReturnFailure ==
    /\ pc = "logged"
    /\ result' = PromptFailure(clientErr).returned
    /\ pc' = "done"
    /\ UNCHANGED <<mainVars, raceVars, configVars, setVars, logVars, args, prompt, requests,
                   server, reply, clientErr, response, content, stdout>>

\* promptCommand formats and prints the response (main.go, lines 331-332)
PrintResponse ==
    /\ pc = "succeeded"
    /\ content' = formatResponse(response)
    /\ stdout' = Append(stdout, formatResponse(response))
    /\ pc' = "printed"
    /\ UNCHANGED <<mainVars, raceVars, configVars, setVars, logVars, args, prompt, requests,
                   server, reply, clientErr, response, result>>

\* promptCommand logs the interaction and returns an error when the append
\* did not go through
LogSuccess_Surfacing ==
    /\ pc = "printed"
    /\ \E outcome \in LogOutcomes :
          LET entry == NewLogEntry(LogTime(Len(logCalls)), "prompt", prompt,
                                   content, "")
          IN
          /\ logFile' = logEntry(logFile, entry, outcome)
          /\ logCalls' = Append(logCalls,
                                [entry |-> entry, outcome |-> outcome])
          /\ IF outcome = "ok"
             THEN pc' = "recorded" /\ UNCHANGED result
             ELSE pc' = "done" /\ result' = "failed to write log entry"
    /\ UNCHANGED <<mainVars, raceVars, configVars, setVars, args, prompt, requests, server, reply,
                   clientErr, response, content, stdout>>

\* promptCommand logs the interaction (main.go, line 335)
LogSuccess ==
    /\ pc = "printed"
    /\ LogEntryCall("prompt", prompt, content, "")
    /\ pc' = "recorded"
    /\ UNCHANGED <<mainVars, raceVars, configVars, setVars, args, prompt, requests, server, reply,
                   clientErr, response, content, stdout, result>>

\* promptCommand returns nil (main.go, line 337)
ReturnSuccess ==
    /\ pc = "recorded"
    /\ result' = ""
    /\ pc' = "done"
    /\ UNCHANGED <<mainVars, raceVars, configVars, setVars, logVars, args, prompt, requests,
                   server, reply, clientErr, response, content, stdout>>

\* the environments of SpecPrompt: no API key; a key alone; a key with a
\* temperature that is no number, with a URL without scheme, with a zero and
\* with a negative timeout
PromptEnvironments ==
    {NoEnv,
     Environ("sk-env", "", "", "", "", "", ""),
     Environ("sk-env", "", "", "", "", "NaN", ""),
     Environ("sk-env", ":8080/v1/chat", "", "", "", "", ""),
     Environ("sk-env", "", "", "0s", "", "", ""),
     Environ("sk-env", "", "", "-1s", "", "", "")}

\* a log file that earlier invocations wrote
OldLog ==
    [exists |-> TRUE, data |->
        "{\"timestamp\":\"2026-01-01T10:00:00Z\",\"command\":\"prompt\",\"prompt\":\"earlier\",\"response\":\"ok\"}\n"]

InitPrompt ==
    /\ env \in PromptEnvironments
    /\ configFile = NoFile
    /\ startup = "pending"
    /\ config = NoConfig
    /\ NoSets
    /\ logFile \in {NoFile, OldLog}
    /\ NoLogCalls
    /\ NoPrompt
    /\ NoMain

NextPrompt ==
    \/ startup = "pending" /\ LoadConfig
    \/ PromptStart
    \/ SendRequest
    \/ ServerResponds
    \/ ConnectionFails
    \/ TimeoutFires
    \/ LogFailure
    \/ ReturnFailure
    \/ PrintResponse
    \/ LogSuccess
    \/ ReturnSuccess

SpecPrompt == InitPrompt /\ [][NextPrompt]_vars

\* promptCommand has called sendChatRequest
ClientCalled ==
    \/ pc \in {"client", "waiting", "failed", "logged", "succeeded",
               "printed", "recorded"}
    \/ pc = "done" /\ logCalls # <<>>

\* sendChatRequest has returned to promptCommand
ClientReturned == ClientCalled /\ pc \notin {"client", "waiting"}

\* promptCommand has returned without calling sendChatRequest, with error e
RejectedWith(e) ==
    pc = "done" /\ ~ClientCalled /\ requests = 0 /\ HasPrefix(result, e)

\* C4 (as amended): the prompt handler applies its checks in this order:
\* empty args fails with "prompt text is required"; otherwise an empty
\* config.APIKey fails with "missing API key"; otherwise a space-joined text
\* that is empty once trimmed fails with "prompt cannot be empty"; only
\* otherwise is the chat client called, with the joined text as the prompt.
C4_ChecksInCodeOrder ==
    pc # "idle" =>
        IF Len(args) = 0 THEN RejectedWith("prompt text is required")
        ELSE IF config.APIKey = "" THEN RejectedWith("missing API key")
        ELSE IF TrimSpace(Join(args, " ")) = ""
        THEN RejectedWith("prompt cannot be empty")
        ELSE ClientCalled /\ prompt = Join(args, " ")

\* C4's case: white space as the only argument and no API key end in
\* "missing API key"
C4_Witness ==
    /\ args = <<"   ">> /\ config.APIKey = ""
    /\ RejectedWith("missing API key")

\* C4 (as claimed): empty args fails with "prompt text is required";
\* otherwise an empty trimmed text fails with "prompt cannot be empty";
\* otherwise an empty config.APIKey fails with "missing API key"; only
\* otherwise is the chat client called.  White space alone always fails with
\* "prompt cannot be empty".
C4_ChecksInClaimedOrder ==
    pc # "idle" =>
        IF Len(args) = 0 THEN RejectedWith("prompt text is required")
        ELSE IF TrimSpace(Join(args, " ")) = ""
        THEN RejectedWith("prompt cannot be empty")
        ELSE IF config.APIKey = "" THEN RejectedWith("missing API key")
        ELSE ClientCalled

\* C5: for every status and body received, sendChatRequest's outcome is
\* that of the first rule that matches: a status other than 200 fails with
\* "unexpected status code" whatever the body; status 200 with a body that
\* does not parse fails with "failed to parse response"; status 200 with a
\* parsed body carrying an error fails with "API error"; otherwise the
\* parsed response is returned with no error.
C5_FirstMatchingRule ==
    reply.received =>
        IF reply.status # 200
        THEN /\ HasPrefix(clientErr, "unexpected status code: "
                                        \o ToString(reply.status))
             /\ response = NoResponse
        ELSE IF reply.body.parseErr # ""
        THEN /\ HasPrefix(clientErr, "failed to parse response")
             /\ response = NoResponse
        ELSE IF reply.body.hasError
        THEN /\ HasPrefix(clientErr, "API error: " \o reply.body.errMessage)
             /\ response = NoResponse
        ELSE /\ clientErr = ""
             /\ response.Choices = reply.body.choices

\* C5's case: a status other than 200 with a body that carries an error
\* object is reported as an unexpected status code
C5_Witness ==
    /\ reply.received /\ reply.status = 400
    /\ reply.body.parseErr = "" /\ reply.body.hasError
    /\ HasPrefix(clientErr, "unexpected status code: 400")

\* sendChatRequest returned before it had a request to send
RequestNotBuilt ==
    \/ HasPrefix(clientErr, "failed to marshal request")
    \/ HasPrefix(clientErr, "failed to create request")

C7_ExchangeBounded ==
    pc = "waiting" =>
        ENABLED (ServerResponds \/ ConnectionFails \/ TimeoutFires)

\* the log file holds what it held before, then one line that decodes to
\* entry
OneLineAppended(entry) ==
    \E old \in {"", OldLog.data} :
        LET n    == Len(logFile.data)
            line == SubSeq(logFile.data, Len(old) + 1, n - 1)
        IN
        /\ HasPrefix(logFile.data, old)
        /\ n > Len(old)
        /\ CharAt(logFile.data, n) = "\n"
        /\ Index(line, "\n") = 0
        /\ UnmarshalLogEntry(line).ok
        /\ UnmarshalLogEntry(line).val = entry

\* promptCommand has made one logEntry call, for the command "prompt" and
\* its prompt, with this response and this error; an append that went
\* through left one line that decodes to them
LoggedOnce(responseText, errorMsg) ==
    /\ Len(logCalls) = 1
    /\ logCalls[1].entry.Command = "prompt"
    /\ logCalls[1].entry.Prompt = Join(args, " ")
    /\ logCalls[1].entry.Response = responseText
    /\ logCalls[1].entry.Error = errorMsg
    /\ logCalls[1].outcome = "ok" => OneLineAppended(logCalls[1].entry)

DisplayText ==
    IF reply.body.choices = <<>> THEN "No response received from ChatGPT"
    ELSE TrimSpace(reply.body.choices[1])

\* C9: when the chat client succeeds, promptCommand computes the display
\* text (the first choice's content trimmed, or "No response received from
\* ChatGPT" without choices), prints it, then makes exactly one log entry
\* with the joined prompt, the printed text as Response and no Error, and
\* returns nil; the print comes before the log entry.
C9_SuccessPrintedThenLogged ==
    (ClientReturned /\ clientErr = "") =>
        /\ pc = "succeeded" => stdout = <<>> /\ logCalls = <<>>
        /\ pc = "printed" =>
              /\ content = DisplayText /\ stdout = <<content>>
              /\ logCalls = <<>>
        /\ pc \in {"recorded", "done"} =>
              /\ content = DisplayText /\ stdout = <<content>>
              /\ LoggedOnce(stdout[1], "")
        /\ pc \in {"succeeded", "printed", "recorded", "done"}
        /\ result = ""

\* C9's case: a choice with surrounding white space was printed trimmed,
\* logged as printed, and nil returned
C9_Witness ==
    /\ pc = "done" /\ clientErr = ""
    /\ reply.body.choices = <<"  Hello there!\n">>
    /\ stdout = <<"Hello there!">>
    /\ logCalls[1].outcome = "ok"
    /\ logCalls[1].entry.Response = "Hello there!"

(***************************************************************************)
(* SpecLog: sequential logEntry calls on one config directory              *)
(***************************************************************************)

\* how many logEntry calls a behaviour holds
MaxLogCalls == 3

\* what logEntry is called with (command, prompt, response, errorMsg): a
\* success, a failure, empty texts, and texts with characters JSON escapes
LogInputs ==
    {<<"prompt", "prompt 1", "response 1", "">>,
     <<"prompt", "prompt 2", "", "error 2">>,
     <<"config", "", "", "">>,
     <<"prompt", "say \"hi\"\n & <go>", "a\\b\tc\r\n", "x > y">>}

\* a call of logEntry (main.go, lines 616-646)
LogEntryCalled ==
    /\ startup = "loaded"
    /\ Len(logCalls) < MaxLogCalls
    /\ \E in \in LogInputs : LogEntryCall(in[1], in[2], in[3], in[4])
    /\ UNCHANGED <<mainVars, raceVars, configVars, setVars, promptVars>>

InitLog ==
    /\ env = NoEnv
    /\ configFile = NoFile
    /\ startup = "pending"
    /\ config = NoConfig
    /\ NoSets
    /\ logFile = NoFile
    /\ NoLogCalls
    /\ NoPrompt
    /\ NoMain

NextLog ==
    \/ startup = "pending" /\ LoadConfig
    \/ LogEntryCalled

SpecLog == InitLog /\ [][NextLog]_vars

\* every logEntry call so far could write: the directory is writable
AllAppended == \A i \in 1..Len(logCalls) : logCalls[i].outcome = "ok"

\* the lines of the log file, and what follows the last newline
LogLines == Split(logFile.data, "\n")

SetCalledFor(key) ==
    /\ lastSet.called /\ Len(lastSet.args) >= 2
    /\ ToUpper(lastSet.args[1]) = key

\* the latest config set was refused because of its key or value; a set
\* that passed them ends without error or with the error of the file's write
SetRefused ==
    lastSet.err # "" /\ ~HasPrefix(lastSet.err, "failed to save configuration")

\* text denotes a number t with 0.0 <= t <= 2.0
InTemperatureRange(text) ==
    /\ ParseFloat(text).ok
    /\ ParseFloat(text).val.kind = "num"
    /\ ParseFloat(text).val.num >= 0
    /\ ParseFloat(text).val.num <= 2 * Pow10(ParseFloat(text).val.scale)

\* C14: config set OPENAI_TEMPERATURE v passes if and only if v parses as a
\* number t with 0.0 <= t <= 2.0; every other v is refused with a message
\* containing "between 0.0 and 2.0".
C14_TemperatureRange ==
    SetCalledFor("OPENAI_TEMPERATURE") =>
        IF InTemperatureRange(lastSet.args[2])
        THEN ~SetRefused
        ELSE lastSet.err = "temperature must be a number between 0.0 and 2.0"

\* the rule of a settable key other than OPENAI_TEMPERATURE, as documented
KeyRule(key, value) ==
    CASE key \in {"OPENAI_API_KEY", "OPENAI_MODEL"} -> value # ""
      [] key = "OPENAI_API_URL" ->
            HasPrefix(value, "http://") \/ HasPrefix(value, "https://")
      [] key = "OPENAI_TIMEOUT" -> ParseDuration(value).ok
      [] key = "OPENAI_MAX_TOKENS" ->
            Atoi(value).ok /\ Atoi(value).val > 0
      [] OTHER -> FALSE

\* C15: for every key other than OPENAI_TEMPERATURE, config set KEY v passes
\* exactly when v satisfies the key's rule; a max tokens value that is no
\* positive integer fails with "must be a positive integer";
\* CHATGPT_CLI_CONFIG_DIR is refused for every value and every key outside
\* the list is refused as unknown.
C15_KeyRules ==
    (lastSet.called /\ Len(lastSet.args) >= 2
        /\ ToUpper(lastSet.args[1]) # "OPENAI_TEMPERATURE") =>
        LET key   == ToUpper(lastSet.args[1])
            value == lastSet.args[2]
        IN
        /\ KeyRule(key, value) <=> ~SetRefused
        /\ (key = "OPENAI_MAX_TOKENS" /\ ~KeyRule(key, value)) =>
              lastSet.err = "max tokens must be a positive integer"
        /\ key = "CHATGPT_CLI_CONFIG_DIR" =>
              HasPrefix(lastSet.err, "CHATGPT_CLI_CONFIG_DIR cannot be set")
        /\ key \notin (EnvKeys \cup {"CHATGPT_CLI_CONFIG_DIR"}) =>
              HasPrefix(lastSet.err, "unknown configuration key: " \o key)

\* C15's case: max tokens 0 was refused as no positive integer
C15_Witness ==
    /\ lastSet.called /\ lastSet.args = <<"OPENAI_MAX_TOKENS", "0">>
    /\ lastSet.err = "max tokens must be a positive integer"

C17_SetNotPersisted ==
    [][sets' = sets + 1 => configFile' = configFile]_vars

\* C18: a successful config set preserves all other values of the existing
\* config file: a key other than the one set has after the call the value
\* the file gave it before.
C18_OtherValuesPreserved ==
    [][(sets' = sets + 1 /\ lastSet'.err = "") =>
          \A K \in DOMAIN loadConfigFile(configFile) :
              K # ToUpper(lastSet'.args[1]) =>
                  MapGet(loadConfigFile(configFile'), K)
                      = MapGet(loadConfigFile(configFile), K)]_vars

\* C12: logging failures never surface: when the append of a prompt
\* invocation fails at the file's open or at a write, the handler's result
\* and the text printed are those of an invocation whose append succeeds:
\* nil and the display text after a success of the chat client, the wrapped
\* client error and nothing printed after its failure.
C12_LogFailuresSwallowed ==
    (pc = "done" /\ logCalls # <<>> /\ logCalls[1].outcome # "ok") =>
        IF clientErr = ""
        THEN result = "" /\ stdout = <<DisplayText>>
        ELSE /\ result = "failed to get response: " \o clientErr
             /\ stdout = <<>>

\* C12's case: the chat client succeeded, the log file could not be opened,
\* and promptCommand returned nil with the response printed
C12_Witness ==
    /\ pc = "done" /\ clientErr = "" /\ reply.received
    /\ logCalls # <<>> /\ logCalls[1].outcome = "open"
    /\ result = "" /\ stdout = <<"Hello there!">>

(***************************************************************************)
(* SpecMain: invocations of the CLI, one after the other, on one config    *)
(* directory (main.go, lines 690-715)                                      *)
(***************************************************************************)

\* how many invocations a behaviour holds
MaxRuns == 2

\* the argument vectors drawn: no command, each command, the config
\* subcommands with too few, the right number of and too many arguments,
\* prompts that pass and fail the checks, names that are no command
CliArgs ==
    {<<"chatgpt-cli">>,
     <<"chatgpt-cli", "help">>,
     <<"chatgpt-cli", "logs">>,
     <<"chatgpt-cli", "config">>,
     <<"chatgpt-cli", "config", "list">>,
     <<"chatgpt-cli", "config", "drop">>,
     <<"chatgpt-cli", "config", "get">>,
     <<"chatgpt-cli", "config", "get", "openai_model">>,
     <<"chatgpt-cli", "config", "get", "OPENAI_API_KEY", "extra">>,
     <<"chatgpt-cli", "config", "set", "OPENAI_MODEL">>,
     <<"chatgpt-cli", "config", "set", "OPENAI_MODEL", "gpt-4">>,
     <<"chatgpt-cli", "config", "set", "OPENAI_API_KEY", "sk-set", "extra">>,
     <<"chatgpt-cli", "prompt">>,
     <<"chatgpt-cli", "prompt", "   ">>,
     <<"chatgpt-cli", "prompt", "Hello", "World">>,
     <<"chatgpt-cli", "version">>,
     <<"chatgpt-cli", "Help">>,
     <<"chatgpt-cli", "">>}

\* the command name and the arguments of the invocation under way
commandName == parseCommand(osArgs).name
commandArgs == parseCommand(osArgs).args

\* main is about to look the command up (main.go, lines 698-704)
Dispatching ==
    /\ startup = "loaded" /\ exitCode = -1
    /\ pc = "idle" /\ handlers = <<>>

\* main, loadConfig having failed: log.Fatalf (main.go, lines 693-695)
ConfigurationError ==
    /\ startup = "failed" /\ exitCode = -1
    /\ stderr' = Append(stderr, "Configuration error: failed to create config directory")
    /\ exitCode' = 1
    /\ UNCHANGED <<configVars, setVars, logVars, promptVars, osArgs,
                   handlers, runs, raceVars>>

\* main, the command being none of the table, leaving with status 0
UnknownCommand_ExitZero ==
    /\ Dispatching
    /\ commandName \notin getCommands
    /\ stderr' = stderr \o <<"Unknown command: " \o commandName, "">>
    /\ stdout' = stdout \o helpCommand.out
    /\ exitCode' = 0
    /\ UNCHANGED <<configVars, setVars, logVars, pc, args, prompt, requests,
                   server, reply, clientErr, response, content, result,
                   osArgs, handlers, runs, raceVars>>

\* main, the command being none of the table (main.go, lines 705-709)
UnknownCommand ==
    /\ Dispatching
    /\ commandName \notin getCommands
    /\ stderr' = stderr \o <<"Unknown command: " \o commandName, "">>
    /\ stdout' = stdout \o helpCommand.out
    /\ exitCode' = 1
    /\ UNCHANGED <<configVars, setVars, logVars, pc, args, prompt, requests,
                   server, reply, clientErr, response, content, result,
                   osArgs, handlers, runs, raceVars>>

\* main calls the handler of help (main.go, line 712)
RunHelp ==
    /\ Dispatching
    /\ commandName = "help"
    /\ handlers' = Append(handlers, "help")
    /\ args' = commandArgs
    /\ stdout' = stdout \o helpCommand.out
    /\ result' = helpCommand.err
    /\ pc' = "done"
    /\ UNCHANGED <<configVars, setVars, logVars, prompt, requests, server,
                   reply, clientErr, response, content, osArgs, stderr,
                   exitCode, runs, raceVars>>

\* main calls the handler of logs
RunLogs ==
    /\ Dispatching
    /\ commandName = "logs"
    /\ handlers' = Append(handlers, "logs")
    /\ args' = commandArgs
    /\ \E readOk \in BOOLEAN :
          /\ stdout' = stdout \o logsCommand(logFile, readOk).out
          /\ result' = logsCommand(logFile, readOk).err
    /\ pc' = "done"
    /\ UNCHANGED <<configVars, setVars, logVars, prompt, requests, server,
                   reply, clientErr, response, content, osArgs, stderr,
                   exitCode, runs, raceVars>>

\* main calls the handler of config
RunConfig ==
    /\ Dispatching
    /\ commandName = "config"
    /\ handlers' = Append(handlers, "config")
    /\ args' = commandArgs
    /\ \E now \in Timestamps, writeOk \in BOOLEAN :
          \E r \in {configCommand(config, commandArgs, configFile, now,
                                  writeOk)} :
          /\ configFile' = r.file
          /\ config' = r.conf
          /\ stdout' = stdout \o r.out
          /\ result' = r.err
          /\ IF Len(commandArgs) > 0 /\ commandArgs[1] = "set"
             THEN /\ lastSet' = [called |-> TRUE,
                                 args |-> SubSeq(commandArgs, 2,
                                                 Len(commandArgs)),
                                 err |-> r.err, out |-> r.out]
                  /\ reloaded' = FALSE
                  /\ sets' = sets + 1
             ELSE UNCHANGED setVars
    /\ pc' = "done"
    /\ UNCHANGED <<env, startup, logVars, prompt, requests, server, reply,
                   clientErr, response, content, osArgs, stderr, exitCode,
                   runs, raceVars>>

\* main calls the handler of prompt, which runs up to its call of
\* sendChatRequest
RunPrompt ==
    /\ Dispatching
    /\ commandName = "prompt"
    /\ handlers' = Append(handlers, "prompt")
    /\ PromptStartWith(commandArgs)
    /\ UNCHANGED <<osArgs, stderr, exitCode, runs, raceVars>>

\* the handler has returned: log.Fatalf for an error, else main returns
\* (main.go, lines 712-715)
Exit ==
    /\ exitCode = -1
    /\ handlers # <<>>
    /\ pc = "done"
    /\ IF result # ""
       THEN /\ stderr' = Append(stderr, "Error: " \o result)
            /\ exitCode' = 1
       ELSE /\ exitCode' = 0
            /\ UNCHANGED stderr
    /\ UNCHANGED <<configVars, setVars, logVars, promptVars, osArgs,
                   handlers, runs, raceVars>>

\* the next invocation: a new process on the same environment and files
Invoke ==
    /\ exitCode # -1
    /\ runs < MaxRuns
    /\ osArgs' \in CliArgs
    /\ runs' = runs + 1
    /\ startup' = "pending" /\ config' = NoConfig
    /\ pc' = "idle" /\ args' = <<>> /\ prompt' = "" /\ requests' = 0
    /\ server' = "none" /\ reply' = NoReply /\ clientErr' = ""
    /\ response' = NoResponse /\ content' = "" /\ stdout' = <<>>
    /\ result' = ""
    /\ handlers' = <<>> /\ stderr' = <<>> /\ exitCode' = -1
    /\ logCalls' = <<>>
    /\ UNCHANGED <<env, configFile, setVars, logFile, raceVars>>

\* the environments of SpecMain: without and with an API key
MainEnvironments == {NoEnv, Environ("sk-env", "", "", "", "", "", "")}

InitMain ==
    /\ env \in MainEnvironments
    /\ configFile = NoFile
    /\ startup = "pending"
    /\ config = NoConfig
    /\ NoSets
    /\ logFile = NoFile
    /\ NoLogCalls
    /\ NoPrompt
    /\ osArgs \in CliArgs /\ handlers = <<>> /\ stderr = <<>>
    /\ exitCode = -1 /\ runs = 1
    /\ NoRace

NextMain ==
    \/ startup = "pending" /\ LoadConfig
    \/ ConfigurationError
    \/ UnknownCommand
    \/ RunHelp
    \/ RunLogs
    \/ RunConfig
    \/ RunPrompt
    \/ SendRequest
    \/ ServerResponds
    \/ ConnectionFails
    \/ TimeoutFires
    \/ LogFailure
    \/ ReturnFailure
    \/ PrintResponse
    \/ LogSuccess
    \/ ReturnSuccess
    \/ Exit
    \/ Invoke

SpecMain == InitMain /\ [][NextMain]_vars

\* the invocation under way has ended, the configuration having loaded
Exited == exitCode # -1 /\ startup = "loaded"

\* C11: the log file is append-only: over any sequence of invocations of
\* help, prompt, logs and config, every step leaves the earlier content of
\* the log a prefix of the later content and never removes the file.
C11_LogAppendOnly ==
    [][/\ HasPrefix(logFile'.data, logFile.data)
       /\ logFile.exists => logFile'.exists]_vars

\* C11's case: the second invocation has appended a second record after
\* the first invocation's
C11_Witness ==
    /\ runs = 2
    /\ exitCode # -1
    /\ Len(logCalls) = 1
    /\ Len(Split(logFile.data, "\n")) = 3

\* the prompt handler of the invocation under way passes its checks and so
\* calls the chat client
PromptAccepted ==
    commandName = "prompt" /\ PromptChecks(config, commandArgs) = ""

\* the log file ends with the record of the one call of logEntry, that call
\* having ended well
LastRecordAppended ==
    LET line == MarshalLogEntry(logCalls[1].entry) \o "\n" IN
    logCalls[1].outcome = "ok" =>
        /\ Len(logFile.data) >= Len(line)
        /\ SubSeq(logFile.data, Len(logFile.data) - Len(line) + 1,
                  Len(logFile.data)) = line

\* C13 (as amended): an invocation calls logEntry exactly once if it is a
\* prompt that passes the handler's checks, whatever the outcome of the
\* exchange, and that call appends one record of command "prompt" unless
\* the append fails; every other invocation (help, logs, config, an unknown
\* command, a rejected prompt) makes no call of logEntry.
C13_OnlyAcceptedPromptsLogged ==
    Exited =>
        /\ Len(logCalls) <= 1
        /\ logCalls # <<>> <=> PromptAccepted
        /\ logCalls # <<>> =>
              /\ logCalls[1].entry.Command = "prompt"
              /\ logCalls[1].entry.Prompt = Join(commandArgs, " ")
              /\ LastRecordAppended

\* C13's case: a prompt whose exchange failed has ended with its one record
\* appended
C13_Witness ==
    /\ Exited
    /\ PromptAccepted
    /\ result # ""
    /\ Len(logCalls) = 1
    /\ logCalls[1].outcome = "ok"
    /\ logFile.exists

\* C13 as first stated: every invocation of a command of the table, whatever
\* its outcome, has a record appended by the logger.
C13_EveryInvocationLogged ==
    (Exited /\ commandName \in getCommands) => logCalls # <<>>

\* the subcommand of the config invocation under way, "" if it is none
Subcommand ==
    IF commandName = "config" /\ Len(commandArgs) > 0
    THEN commandArgs[1] ELSE ""

\* C19: config get fails with its usage error unless it is given exactly
\* one argument, and config set fails with its usage error unless it is
\* given exactly two.
C19_ExactArgumentCounts ==
    Exited =>
        /\ (Subcommand = "get" /\ Len(commandArgs) # 2)
              => HasPrefix(result, "configuration key required")
        /\ (Subcommand = "set" /\ Len(commandArgs) # 3)
              => HasPrefix(result, "both key and value required")

\* the invocation under way ended at the failure of loadConfig
EndedAtConfiguration ==
    /\ handlers = <<>>
    /\ exitCode = 1
    /\ stdout = <<>>
    /\ Len(stderr) = 1
    /\ HasPrefix(stderr[1], "Configuration error: ")

\* the invocation under way ended as one of an unknown command
EndedUnknown ==
    /\ handlers = <<>>
    /\ exitCode = 1
    /\ stderr = <<"Unknown command: " \o commandName, "">>
    /\ stdout = HelpText

\* the invocation under way ended with the handler of its command run once
EndedByHandler ==
    /\ handlers = <<commandName>>
    /\ exitCode # 0 <=> result # ""
    /\ result # "" => stderr = <<"Error: " \o result>>
    /\ result = "" => stderr = <<>>

\* C20 (as amended): an invocation whose configuration fails to load ends
\* with a configuration error on standard error and status 1, no handler
\* run; otherwise a name outside the table ends with the unknown-command
\* message on standard error, the help text, no handler run and status 1,
\* and a name of the table ends with exactly that handler run once and a
\* non-zero status exactly if the handler returned an error.
C20_DispatchOutcomes ==
    /\ Len(handlers) <= 1
    /\ exitCode # -1 =>
          IF startup = "failed" THEN EndedAtConfiguration
          ELSE IF commandName \notin getCommands THEN EndedUnknown
          ELSE EndedByHandler

\* C20's case: an unknown command has ended
C20_Witness ==
    /\ Exited
    /\ osArgs = <<"chatgpt-cli", "version">>
    /\ exitCode = 1
    /\ handlers = <<>>
    /\ stdout = HelpText

\* C20 as first stated: every invocation ends as one of an unknown command
\* or with the handler of its command run once.
C20_TwoOutcomes ==
    exitCode # -1 =>
        IF commandName \notin getCommands THEN EndedUnknown
        ELSE EndedByHandler

\* C21: for every argument vector parseCommand returns "help" and no
\* arguments when there are fewer than two tokens, and otherwise the second
\* token as the command name and exactly the tokens after it, in order; the
\* handler that main calls is called with those arguments.
C21_ParseCommand ==
    /\ Len(osArgs) < 2 => commandName = "help" /\ commandArgs = <<>>
    /\ Len(osArgs) >= 2 =>
          /\ commandName = osArgs[2]
          /\ Len(commandArgs) = Len(osArgs) - 2
          /\ \A i \in 1..Len(commandArgs) : commandArgs[i] = osArgs[i + 2]
    /\ handlers # <<>> =>
          /\ Len(args) = (IF Len(osArgs) < 2 THEN 0 ELSE Len(osArgs) - 2)
          /\ \A i \in 1..Len(args) : args[i] = osArgs[i + 2]

\* C21's case: a handler has been called with the two tokens that follow
\* the command name
C21_Witness ==
    /\ osArgs = <<"chatgpt-cli", "prompt", "Hello", "World">>
    /\ handlers = <<"prompt">>
    /\ args = <<"Hello", "World">>

(***************************************************************************)
(* SpecLogs: the logs command over log files of valid and invalid lines    *)
(***************************************************************************)

\* the most lines of a log file drawn
MaxLogLines == 3

\* the lines drawn: two records as logEntry writes them, a record cut short
\* by a failed write, text that is no JSON, and a blank line
LogLineKinds ==
    {MarshalLogEntry(NewLogEntry("2026-01-01T10:00:00Z", "prompt", "earlier",
                                 "ok", "")),
     MarshalLogEntry(NewLogEntry("2026-01-02T15:04:05Z", "prompt", "later",
                                 "", "e")),
     "{\"timestamp\":\"2026-01-01T10:00:00Z\",\"comm",
     "not json",
     ""}

\* the log files drawn: none, and each file of up to MaxLogLines lines, each
\* line with its newline
LogFilesDrawn ==
    {NoFile} \cup
    {[exists |-> TRUE,
      data |-> IF Len(ls) = 0 THEN "" ELSE Join(ls, "\n") \o "\n"] :
        ls \in UNION {[1..n -> LogLineKinds] : n \in 0..MaxLogLines}}

InitLogs ==
    /\ env \in MainEnvironments
    /\ configFile = NoFile
    /\ startup = "pending"
    /\ config = NoConfig
    /\ NoSets
    /\ logFile \in LogFilesDrawn
    /\ NoLogCalls
    /\ NoPrompt
    /\ osArgs = <<"chatgpt-cli", "logs">> /\ handlers = <<>> /\ stderr = <<>>
    /\ exitCode = -1 /\ runs = 1
    /\ NoRace

NextLogs ==
    \/ startup = "pending" /\ LoadConfig
    \/ ConfigurationError
    \/ RunLogs
    \/ Exit

SpecLogs == InitLogs /\ [][NextLogs]_vars

\* the lines that logsCommand loops over
LinesRead == Split(TrimSpace(logFile.data), "\n")

\* the numbers, from 1, of the lines read that decode as a Log Entry
ParsableLines ==
    {k \in 1..Len(LinesRead) :
        /\ UnmarshalLogEntry(LinesRead[k]).ok
        /\ FormatTimestamp(UnmarshalLogEntry(LinesRead[k]).val.Timestamp).ok}

\* the j-th least of a set of numbers
Nth(S, j) == CHOOSE k \in S : Cardinality({m \in S : m <= k}) = j

\* the first lines of the entries printed
EntryHeaders == SelectSeq(stdout, LAMBDA l : HasPrefix(l, "["))

\* the logs command has shown a log file that holds data
LogsShown ==
    /\ Exited
    /\ commandName = "logs"
    /\ result = ""
    /\ logFile.exists /\ Len(logFile.data) > 0

\* C22 (as amended): the logs command prints the parsable entries of a
\* non-empty log file in file order, each numbered with the 1-based position
\* of its line among the lines read; a line that fails to parse prints no
\* entry but keeps its number, so the numbers increase with gaps where lines
\* were skipped; the count of the header is that of all lines read, and the
\* command succeeds.
C22_EntriesNumberedByLine ==
    LogsShown =>
        /\ exitCode = 0
        /\ stdout[1] = "Showing " \o ToString(Len(LinesRead))
                          \o " log entries:"
        /\ Len(EntryHeaders) = Cardinality(ParsableLines)
        /\ \A j \in 1..Len(EntryHeaders) :
              HasPrefix(EntryHeaders[j],
                        "[" \o ToString(Nth(ParsableLines, j)) \o "] ")

\* C22's case: a file whose second line of three does not parse has been
\* shown
C22_Witness ==
    /\ LogsShown
    /\ ParsableLines = {1, 3}
    /\ Len(EntryHeaders) = 2

\* C22 as first stated: the entries printed are numbered 1, 2, 3, ... with
\* no number consumed by a line that fails to parse.
C22_EntriesNumberedConsecutively ==
    LogsShown =>
        \A j \in 1..Len(EntryHeaders) :
            HasPrefix(EntryHeaders[j], "[" \o ToString(j) \o "] ")

(***************************************************************************)
(* SpecShow: config list and config get over API keys                      *)
(***************************************************************************)

\* the API keys drawn: none, keys of fewer than 8, of 8, of 9 and of more
\* characters, and keys that have the form of a mask
ApiKeysDrawn ==
    {"", "sk-env", "12345678", "123456789", "sk-proj-abcdef123456", "***",
     "abcd...wxyz", "(not set)"}

\* the invocations drawn
ShowArgs ==
    {<<"chatgpt-cli", "config", "list">>,
     <<"chatgpt-cli", "config", "get", "OPENAI_API_KEY">>,
     <<"chatgpt-cli", "config", "get", "openai_api_key">>}

InitShow ==
    /\ env \in {Environ(k, "", "", "", "", "", "") : k \in ApiKeysDrawn}
    /\ configFile \in {NoFile} \cup
          {[exists |-> TRUE, data |-> "OPENAI_API_KEY=" \o k \o "\n"] :
              k \in ApiKeysDrawn \ {""}}
    /\ startup = "pending"
    /\ config = NoConfig
    /\ NoSets
    /\ logFile = NoFile
    /\ NoLogCalls
    /\ NoPrompt
    /\ osArgs \in ShowArgs /\ handlers = <<>> /\ stderr = <<>>
    /\ exitCode = -1 /\ runs = 1
    /\ NoRace

NextShow ==
    \/ startup = "pending" /\ LoadConfig
    \/ ConfigurationError
    \/ RunConfig
    \/ Exit

SpecShow == InitShow /\ [][NextShow]_vars

\* config list or config get OPENAI_API_KEY has ended
KeyShown == Exited /\ commandName = "config" /\ result = ""

\* the API key as the invocation printed it
ShownKey ==
    IF Subcommand = "list"
    THEN SubSeq(stdout[3], 27, Len(stdout[3]))
    ELSE stdout[1]

\* the key has the form of a mask already
MaskShaped(k) ==
    \/ k = "***"
    \/ Len(k) = 11 /\ SubSeq(k, 5, 7) = "..."

\* C23 (as amended): config list and config get OPENAI_API_KEY display the
\* same masked form of the API key: a key longer than 8 characters as its
\* first 4 characters, "..." and its last 4 characters, a non-empty key of at
\* most 8 characters as "***", an empty key as "(not set)"; what is displayed
\* is the key itself only for a key that already has the form of a mask
\* ("***", or 11 characters with "..." in the middle).
C23_KeyMasked ==
    KeyShown =>
        /\ Subcommand = "list" =>
              HasPrefix(stdout[3], "OPENAI_API_KEY:           ")
        /\ ShownKey =
              (IF Len(config.APIKey) > 8
               THEN SubSeq(config.APIKey, 1, 4) \o "..."
                       \o SubSeq(config.APIKey, Len(config.APIKey) - 3,
                                 Len(config.APIKey))
               ELSE IF config.APIKey # "" THEN "***"
               ELSE "(not set)")
        /\ ShownKey = config.APIKey => MaskShaped(config.APIKey)

\* C23's case: config list has shown a key of more than 8 characters
C23_Witness ==
    /\ KeyShown
    /\ Subcommand = "list"
    /\ config.APIKey = "sk-proj-abcdef123456"
    /\ ShownKey = "sk-p...3456"

\* C23 as first stated: for every key value what is displayed is never the
\* key itself.
C23_KeyNeverShown == KeyShown => ShownKey # config.APIKey

\* the step is a call of config set that returns no error
SetSucceeds == sets' = sets + 1 /\ lastSet'.err = ""

\* the previous content of the config file overlaid with the update of the
\* call of config set that the step makes
MergedSettings ==
    (ToUpper(lastSet'.args[1]) :> lastSet'.args[2])
        @@ loadConfigFile(configFile)

\* the settable keys, in the order of the file, that have a non-empty value
\* in m
KeysPresent(m) ==
    SelectSeq(keys, LAMBDA k : k \in DOMAIN m /\ m[k] # "")

\* C24: after a successful save the config file is the generated comment
\* header followed by exactly one KEY=VALUE line for each of the six
\* settable keys whose value in the previous content overlaid with the
\* update is non-empty, in the fixed order, and nothing else.
C24_FileLayout ==
    [][SetSucceeds =>
          \E m \in {MergedSettings} :
          \E present \in {KeysPresent(m)} :
          \E lines \in {Split(configFile'.data, "\n")} :
              /\ Len(lines) = Len(present) + 4
              /\ lines[1] = "# ChatGPT CLI Configuration"
              /\ \E now \in Timestamps : lines[2] = "# Generated on " \o now
              /\ lines[3] = ""
              /\ \A i \in 1..Len(present) :
                    lines[i + 3] = present[i] \o "=" \o m[present[i]]
              /\ lines[Len(lines)] = ""]_vars

(***************************************************************************)
(* SpecRace: two processes running config set side by side on one config   *)
(* directory.  saveConfigFile reads the file (main.go, line 162), builds   *)
(* the text, and os.WriteFile opens the file truncating it and then writes *)
(* the text from offset 0 (main.go, line 190): three steps of a process,   *)
(* between which the other process can take its own.                       *)
(***************************************************************************)

\* the processes that run side by side
Procs == {1, 2}

\* the arguments of config set drawn for them: values of different lengths
\* for different keys, and a value that is refused
RaceSetArgs ==
    {<<"OPENAI_MODEL", "gpt-4-turbo-preview">>,
     <<"OPENAI_MAX_TOKENS", "5">>,
     <<"OPENAI_API_KEY", "sk-new">>,
     <<"OPENAI_TIMEOUT", "soon">>}

\* configSetCommand up to saveConfigFile's read of the file: the arguments
\* are checked, the file is read and the text to write is built
SetReads(p) ==
    /\ procs[p].pc = "start"
    /\ LET a     == procs[p].args
           key   == ToUpper(a[1])
           read  == loadConfigFile(configFile)
       IN
       IF Len(a) < 2 \/ ValidateSetting(key, a[2]) # ""
       THEN procs' = [procs EXCEPT ![p].pc = "refused"]
       ELSE procs' = [procs EXCEPT
                         ![p].pc = "read",
                         ![p].read = read,
                         ![p].text = ConfigFileText((key :> a[2]) @@ read,
                                                    procs[p].now)]
    /\ UNCHANGED <<configVars, setVars, logVars, promptVars, mainVars, writes, call>>

\* os.WriteFile opens the file with O_TRUNC: the file is empty
SetOpens(p) ==
    /\ procs[p].pc = "read"
    /\ configFile' = [exists |-> TRUE, data |-> ""]
    /\ procs' = [procs EXCEPT ![p].pc = "opened"]
    /\ UNCHANGED <<env, startup, config, setVars, logVars, promptVars,
                   mainVars, writes, call>>

\* os.WriteFile writes the text from offset 0: bytes of the file beyond the
\* text stay
SetWrites(p) ==
    /\ procs[p].pc = "opened"
    /\ configFile' =
          [exists |-> TRUE,
           data   |-> procs[p].text
                         \o SubSeq(configFile.data, Len(procs[p].text) + 1,
                                   Len(configFile.data))]
    /\ procs' = [procs EXCEPT ![p].pc = "done"]
    /\ writes' = Append(writes, p)
    /\ UNCHANGED <<env, startup, config, setVars, logVars, promptVars,
                   mainVars, call>>

InitRace ==
    /\ env = NoEnv
    /\ configFile \in {NoFile, SavedFile}
    /\ startup = "pending"
    /\ config = NoConfig
    /\ NoSets
    /\ logFile = NoFile
    /\ NoLogCalls
    /\ NoPrompt
    /\ osArgs = <<>> /\ handlers = <<>> /\ stderr = <<>>
    /\ exitCode = -1 /\ runs = 0
    /\ procs \in [Procs -> {[pc |-> "start", args |-> a, now |-> n,
                             read |-> EmptyMap, text |-> ""] :
                               a \in RaceSetArgs, n \in Timestamps}]
    /\ writes = <<>>
    /\ call = NoCall

NextRace ==
    \E p \in Procs :
        \/ SetReads(p)
        \/ SetOpens(p)
        \/ SetWrites(p)

SpecRace == InitRace /\ [][NextRace]_vars

\* every process has ended, and at least one has written
RaceOver ==
    /\ \A p \in Procs : procs[p].pc \in {"done", "refused"}
    /\ writes # <<>>

\* the process whose write came last
LastWriter == writes[Len(writes)]

\* C25: with two processes running config set side by side the last writer
\* wins: the file left is exactly the file of the process whose write came
\* last, that is, what that process read overlaid with its own update.
C25_LastWriterWins ==
    RaceOver =>
        configFile.data =
            ConfigFileText((ToUpper(procs[LastWriter].args[1])
                               :> procs[LastWriter].args[2])
                              @@ procs[LastWriter].read,
                           procs[LastWriter].now)

(***************************************************************************)
(* SpecLogRace: two processes calling logEntry side by side on one log     *)
(* file.  logEntry opens the file with O_APPEND (main.go, line 633), writes*)
(* the record (line 639) and writes the newline (line 642): three steps of *)
(* a process, between which the other process can take its own.  Each     *)
(* write of a file opened with O_APPEND lands whole at the end of the file.*)
(***************************************************************************)

\* the entries drawn for process p: a success and a failure of two prompts
RaceEntries(p) ==
    {NewLogEntry(LogTime(p), "prompt", q, r[1], r[2]) :
        q \in {"Hello World", "Bye"}, r \in {<<"ok", "">>, <<"", "boom">>}}

\* logEntry up to os.OpenFile, which creates the file if there is none
LogOpens(p) ==
    /\ procs[p].pc = "start"
    /\ logFile' = [exists |-> TRUE, data |-> logFile.data]
    /\ procs' = [procs EXCEPT ![p].pc = "opened"]
    /\ UNCHANGED <<configVars, setVars, logCalls, promptVars, mainVars,
                   writes, call>>

\* f.Write(data): the record is appended
LogWrites(p) ==
    /\ procs[p].pc = "opened"
    /\ logFile' = [exists |-> TRUE,
                   data   |-> logFile.data
                                 \o MarshalLogEntry(procs[p].entry)]
    /\ procs' = [procs EXCEPT ![p].pc = "written"]
    /\ writes' = Append(writes, p)
    /\ UNCHANGED <<configVars, setVars, logCalls, promptVars, mainVars, call>>

\* f.WriteString("\n"): the newline is appended
LogNewline(p) ==
    /\ procs[p].pc = "written"
    /\ logFile' = [exists |-> TRUE, data |-> logFile.data \o "\n"]
    /\ procs' = [procs EXCEPT ![p].pc = "done"]
    /\ UNCHANGED <<configVars, setVars, logCalls, promptVars, mainVars,
                   writes, call>>

InitLogRace ==
    /\ env = NoEnv
    /\ configFile = NoFile
    /\ startup = "pending"
    /\ config = NoConfig
    /\ NoSets
    /\ logFile \in {NoFile, OldLog}
    /\ NoLogCalls
    /\ NoPrompt
    /\ osArgs = <<>> /\ handlers = <<>> /\ stderr = <<>>
    /\ exitCode = -1 /\ runs = 0
    /\ procs \in {[p \in Procs |-> [pc |-> "start", entry |-> e[p]]] :
                     e \in {<<e1, e2>> : e1 \in RaceEntries(1),
                                         e2 \in RaceEntries(2)}}
    /\ writes = <<>>
    /\ call = NoCall

NextLogRace ==
    \E p \in Procs :
        \/ LogOpens(p)
        \/ LogWrites(p)
        \/ LogNewline(p)

SpecLogRace == InitLogRace /\ [][NextLogRace]_vars

\* the lines of the log file, each ended by its newline
WholeLines ==
    LET parts == Split(logFile.data, "\n") IN SubSeq(parts, 1, Len(parts) - 1)

\* C26: with two processes calling logEntry side by side the file holds
\* exactly one line per call and every line is one complete JSON record: no
\* record is parted from its newline by the other process's write.
C26_RecordsKeptWhole ==
    (\A p \in Procs : procs[p].pc = "done") =>
        /\ \A p \in Procs :
              Cardinality({i \in 1..Len(WholeLines) :
                  WholeLines[i] = MarshalLogEntry(procs[p].entry)}) = 1
        /\ \A i \in 1..Len(WholeLines) : UnmarshalLogEntry(WholeLines[i]).ok

\* the step is a call of config set that is refused before saveConfigFile:
\* too few arguments, a value failing its key's rule, CHATGPT_CLI_CONFIG_DIR
\* or an unknown key
SetIsRefused ==
    /\ sets' = sets + 1
    /\ lastSet'.err # ""
    /\ ~HasPrefix(lastSet'.err, "failed to save configuration")

\* C27: a config set that returns an error for its arguments, its value or
\* its key leaves the config file exactly as it was before the call, and
\* does not create the file when there was none; it prints nothing.
C27_RefusedSetKeepsFile ==
    [][SetIsRefused => configFile' = configFile /\ lastSet'.out = <<>>]_vars

\* C27's case: a value that fails its key's rule has been refused with no
\* config file present, and there is none still
C27_Witness ==
    /\ lastSet.called
    /\ lastSet.args = <<"OPENAI_MAX_TOKENS", "0">>
    /\ lastSet.err = "max tokens must be a positive integer"
    /\ ~configFile.exists

\* the log file as it was when the prompt invocation began
LogUntouched == logFile \in {NoFile, OldLog}

FromEnvironmentAlone(e, pe, d, actual) ==
    e # "" => actual = (IF pe.ok THEN pe.val ELSE d)

\* C29: for Timeout, MaxTokens and Temperature an environment variable set
\* to text that does not parse resolves the field to the built-in default and
\* never to the config file's value; the file's value has a say only when
\* the variable is unset or empty.
C29_UnparsableEnvGivesDefault ==
    startup = "loaded" =>
        /\ FromEnvironmentAlone(env[envTimeout],
                                ParseDuration(env[envTimeout]),
                                defaultTimeout, config.Timeout)
        /\ FromEnvironmentAlone(env[envMaxTokens], Atoi(env[envMaxTokens]),
                                defaultMaxTokens, config.MaxTokens)
        /\ FromEnvironmentAlone(env[envTemperature],
                                ParseFloat(env[envTemperature]),
                                defaultTemperature, config.Temperature)

\* C29's case: the three variables hold text that does not parse, the file
\* holds valid values that are not the defaults, and the Config has the
\* defaults
C29_Witness ==
    /\ startup = "loaded"
    /\ env[envTimeout] = "soon" /\ FileValue("OPENAI_TIMEOUT") = "2m"
    /\ env[envMaxTokens] = "many" /\ FileValue("OPENAI_MAX_TOKENS") = "500"
    /\ env[envTemperature] = "hot" /\ FileValue("OPENAI_TEMPERATURE") = "0.2"
    /\ config.Timeout = defaultTimeout
    /\ config.MaxTokens = defaultMaxTokens
    /\ config.Temperature = defaultTemperature

(***************************************************************************)
(* SpecTruncate: truncate over strings and limits                          *)
(***************************************************************************)

\* the greatest limit drawn
MaxLimit == 11

\* the strings drawn, of 0 to 26 characters
TruncateStrings ==
    {"", "a", "ab", "abc", "abcd", "hello", "hello world",
     "this is a very long string"}

\* truncate(call.s, call.maxLen) runs: it returns, or the slice expression
\* s[:maxLen-3] panics
Truncate ==
    /\ call.status = "pending"
    /\ IF truncatePanics(call.s, call.maxLen)
       THEN call' = [call EXCEPT !.status = "panicked"]
       ELSE call' = [call EXCEPT !.status = "returned",
                                 !.result = truncate(call.s, call.maxLen)]
    /\ UNCHANGED <<configVars, setVars, logVars, promptVars, mainVars, procs,
                   writes>>

InitTruncate ==
    /\ env = NoEnv
    /\ configFile = NoFile
    /\ startup = "pending"
    /\ config = NoConfig
    /\ NoSets
    /\ logFile = NoFile
    /\ NoLogCalls
    /\ NoPrompt
    /\ osArgs = <<>> /\ handlers = <<>> /\ stderr = <<>>
    /\ exitCode = -1 /\ runs = 0
    /\ procs = <<>> /\ writes = <<>>
    /\ call \in {[s |-> s, maxLen |-> n, status |-> "pending", result |-> ""] :
                    s \in TruncateStrings, n \in -1..MaxLimit}

NextTruncate == Truncate

SpecTruncate == InitTruncate /\ [][NextTruncate]_vars

\* C30: for every string s and every limit maxLen, truncate returns s
\* unchanged when s is no longer than maxLen, and otherwise the first
\* maxLen-3 characters of s followed by "..."; the result is never longer
\* than maxLen, and is exactly maxLen long when s was cut.
C30_Truncate ==
    call.status \notin {"none", "pending"} =>
        /\ call.status = "returned"
        /\ Len(call.result) <= call.maxLen
        /\ IF Len(call.s) <= call.maxLen
           THEN call.result = call.s
           ELSE /\ call.result = SubSeq(call.s, 1, call.maxLen - 3) \o "..."
                /\ Len(call.result) = call.maxLen

====
